---- MODULE Spec2Model ----
(***************************************************************************)
(* A model of the LinkedIn comment generator back end: the start-up        *)
(* selection of the comment generator (main.py), the comment generation    *)
(* flow (analyze_post_context, then generate_comments of the Anthropic,    *)
(* OpenAI and Gemini generators), and the text and fetch helpers the       *)
(* generators rest on.                                                     *)
(***************************************************************************)
EXTENDS Integers, Sequences, FiniteSets, TLC

VARIABLES
    \* ---- settings and start-up (app/core/config.py, main.py:56-89) ----
    AI_PROVIDER,        \* settings.AI_PROVIDER
    api_keys,           \* provider -> whether settings.<P>_API_KEY is set
    constructible,      \* provider -> whether CommentGenerator() of that module constructs
    comment_generator,  \* main.comment_generator: "None" or the constructed generator
    generator_used,     \* main.generator_used: "None" or the provider's name
    tried,              \* the generators start-up has tried to construct, in order
    analyzer_used,      \* main.analyzer_used: "None" or the analyzer's provider
    pc,                 \* position: start-up blocks, then the generation flow
    \* ---- one comment generation (main.py:560-579 and the generators) ----
    post_content,       \* post["content"] of the post commented on
    post_context,       \* the result of profile_analyzer.analyze_post_context
    post_analysis,      \* the result of _analyze_post_type (OpenAI, Gemini)
    attempt,            \* the loop variable of OpenAI's _analyze_post_type
    llm_requests,       \* step -> LLM requests issued by that step in this generation
    gen_response,       \* the LLM's answer to the generation request
    generated,          \* the list generate_comments returned
    raised,             \* whether generate_comments propagated an exception
    \* ---- the length passes of the humanizers ----
    text,               \* the comment handed to a length pass
    user_style,         \* the user style record handed with it
    text_op,            \* "none", or the length pass that was applied
    result_text,        \* what the pass returned
    \* ---- LinkedInScraperAPI.fetch_posts, LinkedInFetcherRapidAPI.fetch_posts ----
    fetcher,            \* "scraper" or "rapidapi": the class whose fetch_posts runs
    api_posts,          \* the posts the API serves for the profile
    max_days,           \* fetch_posts' max_days
    max_posts,          \* fetch_posts' max_posts
    fetch_pc,           \* "idle", "smart" (in the window loop), "filter", "returned"
    windows_tried,      \* the windows (days) requested so far, in order
    posts_found,        \* how many posts each of these requests returned
    all_posts,          \* all_posts of the smart fetch
    fetch_result,       \* the "posts" of the dict fetch_posts returned
    \* ---- ParaphraseService ----
    credentials,        \* whether HUMANIZER_BOT_AUTH_USER / _PASSWORD are set
    para_text,          \* the text handed to paraphrase
    para_pc,            \* "idle", then "returned" or "raised"
    http_outcome,       \* what requests.post did, if it was called
    http_requests,      \* the HTTP requests paraphrase has made
    para_result,        \* what paraphrase returned
    \* ---- JSON cleaning ----
    json_value,         \* the string value held by the JSON object J
    fence,              \* "none", or the fence J is wrapped in
    prose_before,       \* the prose before J (or before the fence)
    prose_after,        \* the prose after J (or after the fence)
    json_op,            \* "none", or the cleaning function that was applied
    cleaned,            \* the text the cleaning function returned
    \* ---- the in-memory stores and the REST endpoints (main.py:160-657) ----
    users_db,           \* main.users_db: user id -> user
    targets_db,         \* main.targets_db: target id -> target
    posts_db,           \* main.posts_db: post id -> post
    comments_db,        \* main.comments_db: comment id -> generated comment
    clock,              \* the time datetime.now() last answered
    request,            \* the last request the API served
    response,           \* its answer
    \* ---- UserProfileManager, for one username ----
    profile_file,       \* the file user_profiles/<u>.json of the one username u
    last_saved,         \* what the last successful save_profile wrote, "None" after a delete
    profile_before,     \* the file before the last add_comment_sample
    pm_call,            \* the last call on the profile manager
    pm_result,          \* what it returned
    \* ---- AdvancedHumanizer ----
    hz_comment,         \* the comment given to the humanizer
    hz_style,           \* the user_style given with it
    hz_op,              \* the method of AdvancedHumanizer that was called
    hz_calls,           \* how often humanize_comment was applied
    hz_result,          \* what the last call returned or raised
    hz_repeats,         \* every application returned what the first one returned
    hz_quiet            \* no application made a random edit

appVars == <<AI_PROVIDER, api_keys, constructible, comment_generator, generator_used,
             tried, analyzer_used, pc, post_content, post_context, post_analysis, attempt, llm_requests,
             gen_response, generated, raised>>

textVars == <<text, user_style, text_op, result_text>>

fetchVars == <<fetcher, api_posts, max_days, max_posts, fetch_pc, windows_tried, posts_found,
               all_posts, fetch_result>>

paraVars == <<credentials, para_text, para_pc, http_outcome, http_requests, para_result>>

jsonVars == <<json_value, fence, prose_before, prose_after, json_op, cleaned>>

storeVars == <<users_db, targets_db, posts_db, comments_db, clock, request, response>>

profileVars == <<profile_file, last_saved, profile_before, pm_call, pm_result>>

humanizeVars == <<hz_comment, hz_style, hz_op, hz_calls, hz_result, hz_repeats, hz_quiet>>

vars == <<appVars, textVars, fetchVars, paraVars, jsonVars, storeVars, profileVars, humanizeVars>>

\* What each subsystem leaves alone.
nonAppVars == <<textVars, fetchVars, paraVars, jsonVars, storeVars, profileVars, humanizeVars>>
nonTextVars == <<appVars, fetchVars, paraVars, jsonVars, storeVars, profileVars, humanizeVars>>
nonFetchVars == <<appVars, textVars, paraVars, jsonVars, storeVars, profileVars, humanizeVars>>
nonParaVars == <<appVars, textVars, fetchVars, jsonVars, storeVars, profileVars, humanizeVars>>
nonJsonVars == <<appVars, textVars, fetchVars, paraVars, storeVars, profileVars, humanizeVars>>
nonStoreVars == <<appVars, textVars, fetchVars, paraVars, jsonVars, profileVars, humanizeVars>>
nonProfileVars == <<appVars, textVars, fetchVars, paraVars, jsonVars, storeVars, humanizeVars>>
nonHumanizeVars == <<appVars, textVars, fetchVars, paraVars, jsonVars, storeVars, profileVars>>

\* ------------------------------------------------------------------ bounds

\* The longest "comments" array of an LLM answer that is enumerated.
MaxComments == 3

\* ------------------------------------------------------------- start-up

Providers == {"anthropic", "openai", "gemini"}

\* main.py:61: the Anthropic generator is tried when it is the configured
\* provider or when its API key is set.
AnthropicCondition ==
    AI_PROVIDER = "anthropic" \/ api_keys["anthropic"]

\* A start-up that tries OpenAI even after Anthropic was constructed.
OpenAIConditionNoGuard ==
    AI_PROVIDER = "openai" \/ api_keys["openai"]

\* main.py:71: OpenAI is tried when no generator was constructed yet and it is
\* the configured provider or its API key is set.
OpenAICondition ==
    /\ comment_generator = "None"
    /\ (AI_PROVIDER = "openai" \/ api_keys["openai"])

\* main.py:81: Gemini is the last resort, tried when nothing was constructed.
GeminiCondition ==
    comment_generator = "None"

NoRequests == [s \in {"post_context", "post_type", "generate"} |-> 0]

NoAngles == [kind |-> "absent", items |-> <<>>]
NoAnalysis == [type |-> "none", approaches |-> <<>>]
NoResponse == [kind |-> "none", comments |-> [kind |-> "absent", items |-> <<>>]]

\* main.py:57-58 with the settings object of app/core/config.py: any provider
\* name, any combination of configured keys, and any outcome of the three
\* constructors (an import or an SDK constructor may raise).
InitApp ==
    /\ AI_PROVIDER \in Providers
    /\ api_keys \in [{"anthropic", "openai"} -> BOOLEAN]
    /\ constructible \in [Providers -> BOOLEAN]
    /\ comment_generator = "None"
    /\ generator_used = "None"
    /\ tried = <<>>
    /\ analyzer_used = "None"
    /\ pc = "try_anthropic_analyzer"
    /\ post_content = "general"
    /\ post_context = [angles |-> NoAngles]
    /\ post_analysis = NoAnalysis
    /\ attempt = 0
    /\ llm_requests = NoRequests
    /\ gen_response = NoResponse
    /\ generated = <<>>
    /\ raised = FALSE

\* The application before start-up, never started: the state of its variables
\* in the specifications of the other subsystems.
IdleApp ==
    /\ AI_PROVIDER = "anthropic"
    /\ api_keys = [p \in {"anthropic", "openai"} |-> FALSE]
    /\ constructible = [p \in Providers |-> FALSE]
    /\ comment_generator = "None"
    /\ generator_used = "None"
    /\ tried = <<>>
    /\ analyzer_used = "None"
    /\ pc = "not_started"
    /\ post_content = "general"
    /\ post_context = [angles |-> NoAngles]
    /\ post_analysis = NoAnalysis
    /\ attempt = 0
    /\ llm_requests = NoRequests
    /\ gen_response = NoResponse
    /\ generated = <<>>
    /\ raised = FALSE

\* No length pass is under way: the state of these variables in the
\* specifications of the other subsystems.
IdleText ==
    /\ text = <<>>
    /\ user_style = [avg_comment_length |-> 0]
    /\ text_op = "none"
    /\ result_text = <<>>

\* No fetch is under way.
IdleFetch ==
    /\ fetcher = "scraper"
    /\ api_posts = <<>>
    /\ max_days = 30
    /\ max_posts = 1
    /\ fetch_pc = "idle"
    /\ windows_tried = <<>>
    /\ posts_found = <<>>
    /\ all_posts = <<>>
    /\ fetch_result = <<>>

\* No HTTP exchange: requests.post was not called.
NoOutcome == [kind |-> "none", status |-> 0,
              body |-> [shape |-> "none", output |-> [kind |-> "None", str |-> <<>>]]]

\* The paraphrase service is not in use.
IdlePara ==
    /\ credentials = [username |-> FALSE, password |-> FALSE]
    /\ para_text = <<>>
    /\ para_pc = "idle"
    /\ http_outcome = NoOutcome
    /\ http_requests = 0
    /\ para_result = <<>>

\* No LLM response is being cleaned.
IdleJson ==
    /\ json_value = <<>>
    /\ fence = "none"
    /\ prose_before = <<>>
    /\ prose_after = <<>>
    /\ json_op = "none"
    /\ cleaned = <<>>

NoRequest == [endpoint |-> "none", user_id |-> 0, post_id |-> 0]
NoAnswer == [status |-> 0, generator_called |-> FALSE, total_comments |-> 0, comments |-> <<>>]

\* The stores as main.py:160-163 creates them, before any request.
IdleStore ==
    /\ users_db = <<>>
    /\ targets_db = <<>>
    /\ posts_db = <<>>
    /\ comments_db = <<>>
    /\ clock = 0
    /\ request = NoRequest
    /\ response = NoAnswer

\* A profile as a record: its real_comments, analysis.total_comments_analyzed,
\* the kind of the values in its other fields, and _metadata.username; None
\* is the record of kind "None".
NoProfile == [kind |-> "None", real_comments |-> <<>>, total_comments_analyzed |-> 0,
              other |-> "json", metadata_username |-> "None"]

\* A file: absent, a JSON document, or the beginning of one.
NoFile == [kind |-> "absent", profile |-> NoProfile]

NoCall == [op |-> "none", comment |-> "None"]
NoReturn == [bool |-> FALSE, profile |-> NoProfile]

\* No profile was ever saved and the manager was never called.
IdleProfile ==
    /\ profile_file = NoFile
    /\ last_saved = NoProfile
    /\ profile_before = NoFile
    /\ pm_call = NoCall
    /\ pm_result = NoReturn

\* No call of the humanizer has returned.
NoText == [kind |-> "none", text |-> <<>>]

\* The humanizer was never called.
IdleHumanize ==
    /\ hz_comment = <<>>
    /\ hz_style = [typical_comment_openings |-> <<>>, tone |-> "professional", avg_comment_length |-> 0]
    /\ hz_op = "none"
    /\ hz_calls = 0
    /\ hz_result = NoText
    /\ hz_repeats = TRUE
    /\ hz_quiet = TRUE

genVars == <<post_content, post_context, post_analysis, attempt, llm_requests, gen_response,
             generated, raised>>
settingsVars == <<AI_PROVIDER, api_keys, constructible>>

\* main.py:35-43: the Anthropic analyzer is tried under the same condition as
\* the Anthropic generator; its constructor's outcome is the environment's.
TryAnthropicAnalyzer ==
    /\ UNCHANGED nonAppVars
    /\ pc = "try_anthropic_analyzer"
    /\ pc' = "try_gemini_analyzer"
    /\ IF AnthropicCondition
       THEN \E ok \in BOOLEAN : analyzer_used' = IF ok THEN "anthropic" ELSE "None"
       ELSE UNCHANGED analyzer_used
    /\ UNCHANGED <<settingsVars, genVars, tried, comment_generator, generator_used>>

\* main.py:45-54: the Gemini analyzer is the fallback; with none, start-up raises.
TryGeminiAnalyzer ==
    /\ UNCHANGED nonAppVars
    /\ pc = "try_gemini_analyzer"
    /\ IF analyzer_used = "None"
       THEN \E ok \in BOOLEAN :
                /\ analyzer_used' = IF ok THEN "gemini" ELSE "None"
                /\ pc' = IF ok THEN "try_anthropic" ELSE "startup_raised"
       ELSE UNCHANGED analyzer_used /\ pc' = "try_anthropic"
    /\ UNCHANGED <<settingsVars, genVars, tried, comment_generator, generator_used>>

\* main.py:60-68
TryAnthropic ==
    /\ UNCHANGED nonAppVars
    /\ pc = "try_anthropic"
    /\ pc' = "try_openai"
    /\ IF AnthropicCondition
       THEN /\ tried' = Append(tried, "anthropic")
            /\ IF constructible["anthropic"]
               THEN comment_generator' = "anthropic" /\ generator_used' = "anthropic"
               ELSE UNCHANGED <<comment_generator, generator_used>>
       ELSE UNCHANGED <<tried, comment_generator, generator_used>>
    /\ UNCHANGED <<settingsVars, genVars, analyzer_used>>

\* main.py:70-78
TryOpenAI ==
    /\ UNCHANGED nonAppVars
    /\ pc = "try_openai"
    /\ pc' = "try_gemini"
    /\ IF OpenAICondition
       THEN /\ tried' = Append(tried, "openai")
            /\ IF constructible["openai"]
               THEN comment_generator' = "openai" /\ generator_used' = "openai"
               ELSE UNCHANGED <<comment_generator, generator_used>>
       ELSE UNCHANGED <<tried, comment_generator, generator_used>>
    /\ UNCHANGED <<settingsVars, genVars, analyzer_used>>

\* main.py:80-89: the last block either constructs Gemini or raises.
TryGemini ==
    /\ UNCHANGED nonAppVars
    /\ pc = "try_gemini"
    /\ IF GeminiCondition
       THEN /\ tried' = Append(tried, "gemini")
            /\ IF constructible["gemini"]
               THEN /\ comment_generator' = "gemini"
                    /\ generator_used' = "gemini"
                    /\ pc' = "ready"
               ELSE /\ UNCHANGED <<comment_generator, generator_used>>
                    /\ pc' = "startup_raised"
       ELSE /\ UNCHANGED <<tried, comment_generator, generator_used>>
            /\ pc' = "ready"
    /\ UNCHANGED <<settingsVars, genVars, analyzer_used>>

\* ------------------------------------------------- comment generation

\* What post["content"] can be: a text with a question, any other text, or
\* None (main.py:450 stores post.get("content")).
PostContents == {"question", "general", "None"}

Prefix(sq, n) == SubSeq(sq, 1, n)

\* The values "best_response_angles" can take in an LLM's JSON answer: the key
\* is absent, its value is null (or another value without a length), or a list.
AngleVals ==
    {[kind |-> "absent", items |-> <<>>], [kind |-> "null", items |-> <<>>]}
    \cup {[kind |-> "list", items |-> Prefix(<<"angle1", "angle2", "angle3">>, n)] : n \in 0..3}

\* profile_analyzer_anthropic.py:571-578
DefaultPostAnthropic ==
    [angles |-> [kind |-> "list", items |-> <<"share perspective", "ask question">>]]

\* profile_analyzer_gemini.py:478-479: no "best_response_angles" key.
DefaultPostGemini == [angles |-> NoAngles]

\* An item of the "comments" array: a dict whose text ends a sentence, a dict
\* whose text is missing, empty or without any sentence (the humanizer of
\* advanced_humanizer.py reduces it to ''), or a value that is no dict or whose
\* text is no string.
ItemKinds == {"text", "noterm", "bad"}

RECURSIVE SeqsUpTo(_, _)
SeqsUpTo(S, n) ==
    IF n = 0 THEN {<<>>}
    ELSE LET shorter == SeqsUpTo(S, n - 1)
         IN shorter \cup {Append(sq, x) : sq \in {t \in shorter : Len(t) = n - 1}, x \in S}

CommentVals ==
    {[kind |-> "absent", items |-> <<>>], [kind |-> "null", items |-> <<>>]}
    \cup {[kind |-> "list", items |-> its] : its \in SeqsUpTo(ItemKinds, MaxComments)}

\* The answers of the LLM to the generation request: the call raises, the text
\* is empty, the text is no JSON, the JSON is no object, or it is an object.
GenResponses ==
    {[kind |-> k, comments |-> [kind |-> "absent", items |-> <<>>]] :
        k \in {"raise", "empty", "badjson", "nondict"}}
    \cup {[kind |-> "dict", comments |-> c] : c \in CommentVals}

\* The answers of the LLM to the post type analysis request.
AnalysisResponses == {"raise", "badjson", "nondict", "missing", "short", "valid"}

Return(cs) == [raised |-> FALSE, comments |-> cs]
Raise == [raised |-> TRUE, comments |-> <<>>]

\* comment_generator_anthropic.py:414-442. len(angles) raises a TypeError when
\* "best_response_angles" is null.
AnthropicFallbackComments(ctx) ==
    IF ctx.angles.kind = "null" THEN Raise
    ELSE LET angles == IF ctx.angles.kind = "absent"
                       THEN <<"thoughtful response", "ask question", "share insight">>
                       ELSE ctx.angles.items
         IN Return(<<
              [text |-> IF Len(angles) > 0 THEN angles[1] ELSE "curious to hear more",
               variation |-> 1, approach |-> "fallback_1"],
              [text |-> IF Len(angles) > 1 THEN angles[2] ELSE "makes me think",
               variation |-> 2, approach |-> "fallback_2"],
              [text |-> IF Len(angles) > 2 THEN angles[3] ELSE "gonna reflect on this",
               variation |-> 3, approach |-> "fallback_3"]>>)

\* comment_generator_gemini.py:420-432, comment_generator_openai.py:411-423
FallbackTemplate(approach, default) ==
    CASE approach = "engage" -> "Great insights. Thanks for sharing."
      [] approach = "question" -> "Interesting. How do you see this evolving?"
      [] approach = "relate" -> "This resonates. Really valuable post."
      [] approach = "answer_directly" -> "From my experience: focus on X first."
      [] approach = "share_experience" -> "Had similar experience. Game changer."
      [] OTHER -> default

\* comment_generator_gemini.py:415-453, comment_generator_openai.py:406-444;
\* <<>> stands for a call without approaches.
FallbackComments(approaches) ==
    LET a == IF approaches = <<>> THEN <<"engage", "question", "relate">> ELSE approaches
    IN Return(<<
         [text |-> FallbackTemplate(a[1], "Great insights!"), variation |-> 1, approach |-> a[1]],
         [text |-> FallbackTemplate(a[2], "Interesting perspective."), variation |-> 2, approach |-> a[2]],
         [text |-> FallbackTemplate(a[3], "This resonates."), variation |-> 3, approach |-> a[3]]>>)

\* The loop of generate_comments over enumerate(comments, 1)
\* (comment_generator_anthropic.py:93-110, _openai.py:90-113, _gemini.py:83-94).
Numbered(items) ==
    [i \in 1..Len(items) |-> [text |-> items[i], variation |-> i, approach |-> "llm"]]

HasItem(items, k) == \E i \in 1..Len(items) : items[i] = k

\* comment_generator_anthropic.py:51-125, after the prompt was built.
AnthropicGenerateComments(ctx, resp) ==
    CASE resp.kind \in {"raise", "empty", "badjson", "nondict"} -> AnthropicFallbackComments(ctx)
      [] resp.comments.kind = "absent" -> AnthropicFallbackComments(ctx)
      [] resp.comments.kind = "null" -> AnthropicFallbackComments(ctx)
      [] HasItem(resp.comments.items, "bad") -> AnthropicFallbackComments(ctx)
      [] resp.comments.items = <<>> -> AnthropicFallbackComments(ctx)
      [] OTHER -> Return(Numbered(resp.comments.items))

\* comment_generator_gemini.py:63-105 and comment_generator_openai.py:67-124:
\* the JSON error and the empty list fall back with the analysed approaches,
\* the except block with none. itemRaises tells whether processing some item
\* raises.
GenerateWithApproaches(approaches, resp, itemRaises) ==
    CASE resp.kind \in {"raise", "nondict"} -> FallbackComments(<<>>)
      [] resp.kind \in {"empty", "badjson"} -> FallbackComments(approaches)
      [] resp.comments.kind = "absent" -> FallbackComments(approaches)
      [] resp.comments.kind = "null" -> FallbackComments(<<>>)
      [] itemRaises -> FallbackComments(<<>>)
      [] resp.comments.items = <<>> -> FallbackComments(approaches)
      [] OTHER -> Return(Numbered(resp.comments.items))

\* A post type analysis that is repeated until the third failure.
AnalysisAttemptsThree(g) == 3

\* How often _analyze_post_type issues its request before it falls back:
\* comment_generator_openai.py:128 loops over range(2),
\* comment_generator_gemini.py:118-177 tries once.
AnalysisAttempts(g) == IF g = "openai" THEN 2 ELSE 1

\* _fallback_post_analysis (comment_generator_gemini.py:179-237,
\* comment_generator_openai.py:184-242), for the modelled post contents.
FallbackPostAnalysis(content) ==
    IF content = "question"
    THEN [type |-> "question", approaches |-> <<"answer_directly", "share_experience", "ask_followup">>]
    ELSE [type |-> "general", approaches |-> <<"engage", "question", "relate">>]

\* The analysis built from an LLM answer that needs no fallback
\* (comment_generator_gemini.py:153-170, comment_generator_openai.py:157-172).
ParsedPostAnalysis(r) ==
    CASE r = "valid" -> [type |-> "llm", approaches |-> <<"approach1", "approach2", "approach3">>]
      [] r = "missing" -> [type |-> "general", approaches |-> <<"engage", "respond", "react">>]
      [] OTHER -> [type |-> "llm", approaches |-> <<"engage", "question", "relate">>]

\* Whether the answer makes _analyze_post_type fail: Gemini repairs missing or
\* short approaches (lines 156-162), OpenAI raises a ValueError (lines 160-164).
AnalysisFails(g, r) ==
    \/ r \in {"raise", "badjson", "nondict"}
    \/ g = "openai" /\ r \in {"missing", "short"}

startupVars == <<settingsVars, comment_generator, generator_used, tried, analyzer_used>>

\* main.py:560-565, a new request: the Anthropic analyzer is handed the post
\* dict where it expects a string, raises before its request and answers its
\* default (profile_analyzer_anthropic.py:396, 459-463); the Gemini analyzer
\* issues one request and answers the parsed JSON or its default
\* (profile_analyzer_gemini.py:332-391).
AnalyzePostContext ==
    /\ UNCHANGED nonAppVars
    /\ pc \in {"ready", "done"}
    /\ \E content \in PostContents : post_content' = content
    /\ IF analyzer_used = "anthropic"
       THEN /\ post_context' = DefaultPostAnthropic
            /\ llm_requests' = NoRequests
       ELSE /\ \E ok \in BOOLEAN, a \in AngleVals :
                  post_context' = IF ok THEN [angles |-> a] ELSE DefaultPostGemini
            /\ llm_requests' = [NoRequests EXCEPT !["post_context"] = 1]
    /\ pc' = IF comment_generator = "anthropic" THEN "generate" ELSE "analyze"
    /\ post_analysis' = NoAnalysis
    /\ attempt' = 0
    /\ gen_response' = NoResponse
    /\ generated' = <<>>
    /\ raised' = FALSE
    /\ UNCHANGED startupVars

\* comment_generator_anthropic.py:36-125. Building the prompt slices
\* "best_response_angles" (line 236) and None content (inside the try): with
\* either the request is never issued and the except block falls back.
AnthropicGenerate ==
    /\ UNCHANGED nonAppVars
    /\ pc = "generate"
    /\ comment_generator = "anthropic"
    /\ IF post_context.angles.kind = "null"
       THEN /\ UNCHANGED <<llm_requests, gen_response>>
            /\ LET r == AnthropicFallbackComments(post_context)
               IN generated' = r.comments /\ raised' = r.raised
       ELSE \E resp \in GenResponses :
                /\ gen_response' = resp
                /\ llm_requests' = [llm_requests EXCEPT !["generate"] = @ + 1]
                /\ LET r == AnthropicGenerateComments(post_context, resp)
                   IN generated' = r.comments /\ raised' = r.raised
    /\ pc' = "done"
    /\ UNCHANGED <<startupVars, post_content, post_context, post_analysis, attempt>>

\* _analyze_post_type of the OpenAI and Gemini generators, one request per
\* step. With None content the slice post_content[:400] raises before any
\* request, _fallback_post_analysis raises on None.lower(), and the except
\* block of generate_comments returns the default fallback.
AnalyzePostType ==
    /\ UNCHANGED nonAppVars
    /\ pc = "analyze"
    /\ comment_generator \in {"openai", "gemini"}
    /\ IF post_content = "None"
       THEN /\ generated' = FallbackComments(<<>>).comments
            /\ raised' = FALSE
            /\ pc' = "done"
            /\ UNCHANGED <<llm_requests, post_analysis, attempt>>
       ELSE \E r \in AnalysisResponses :
                /\ llm_requests' = [llm_requests EXCEPT !["post_type"] = @ + 1]
                /\ UNCHANGED <<generated, raised>>
                /\ IF ~AnalysisFails(comment_generator, r)
                   THEN /\ post_analysis' = ParsedPostAnalysis(r)
                        /\ pc' = "generate"
                        /\ UNCHANGED attempt
                   ELSE IF attempt + 1 < AnalysisAttempts(comment_generator)
                   THEN /\ attempt' = attempt + 1
                        /\ pc' = "analyze"
                        /\ UNCHANGED post_analysis
                   ELSE /\ post_analysis' = FallbackPostAnalysis(post_content)
                        /\ pc' = "generate"
                        /\ UNCHANGED attempt
    /\ UNCHANGED <<startupVars, post_content, post_context, gen_response>>

\* comment_generator_openai.py:57-124: apply_advanced_humanization raises an
\* IndexError on a text it has emptied when its random choices add a starter
\* (advanced_humanizer.py:229, 234, 269).
OpenAIGenerate ==
    /\ UNCHANGED nonAppVars
    /\ pc = "generate"
    /\ comment_generator = "openai"
    /\ \E resp \in GenResponses, rnd \in BOOLEAN :
        /\ gen_response' = resp
        /\ llm_requests' = [llm_requests EXCEPT !["generate"] = @ + 1]
        /\ LET itemRaises == \/ HasItem(resp.comments.items, "bad")
                             \/ rnd /\ HasItem(resp.comments.items, "noterm")
               r == GenerateWithApproaches(post_analysis.approaches, resp, itemRaises)
           IN generated' = r.comments /\ raised' = r.raised
    /\ pc' = "done"
    /\ UNCHANGED <<startupVars, post_content, post_context, post_analysis, attempt>>

\* comment_generator_gemini.py:54-105: HumanizationEngine.humanize raises only
\* on a text that is no string.
GeminiGenerate ==
    /\ UNCHANGED nonAppVars
    /\ pc = "generate"
    /\ comment_generator = "gemini"
    /\ \E resp \in GenResponses :
        /\ gen_response' = resp
        /\ llm_requests' = [llm_requests EXCEPT !["generate"] = @ + 1]
        /\ LET r == GenerateWithApproaches(post_analysis.approaches, resp,
                                           HasItem(resp.comments.items, "bad"))
           IN generated' = r.comments /\ raised' = r.raised
    /\ pc' = "done"
    /\ UNCHANGED <<startupVars, post_content, post_context, post_analysis, attempt>>

Init == InitApp /\ IdleText /\ IdleFetch /\ IdlePara /\ IdleJson /\ IdleStore /\ IdleProfile /\ IdleHumanize

Next ==
    \/ TryAnthropicAnalyzer
    \/ TryGeminiAnalyzer
    \/ TryAnthropic
    \/ TryOpenAI
    \/ TryGemini
    \/ AnalyzePostContext
    \/ AnthropicGenerate
    \/ AnalyzePostType
    \/ OpenAIGenerate
    \/ GeminiGenerate

Spec == Init /\ [][Next]_vars

\* ------------------------------------------------------------ claims

StartupDone == pc \in {"ready", "analyze", "generate", "done"}

IsNumbered(cs) == \A i \in 1..Len(cs) : cs[i].variation = i

\* C1: whatever the LLM answers, generate_comments returns exactly 3 comment
\* variations, numbered 1, 2, 3 in order.
C1_ExactlyThreeVariations ==
    (pc = "done" /\ ~raised) => (Len(generated) = 3 /\ IsNumbered(generated))

\* The cases in which generate_comments has to fall back: the LLM call raised,
\* its text was empty or no JSON, or the parsed answer holds no comments.
GenerationFailed ==
    \/ gen_response.kind \in {"raise", "empty", "badjson"}
    \/ gen_response.kind = "dict" /\ gen_response.comments.kind = "absent"
    \/ gen_response.kind = "dict" /\ gen_response.comments.kind = "list"
                                  /\ gen_response.comments.items = <<>>

IsFallbackList(cs) == Len(cs) > 0 /\ \A i \in 1..Len(cs) : cs[i].approach # "llm"

\* C2: generate_comments never propagates an exception, and when the LLM call
\* raises, the text is empty or no JSON, or the answer holds no comments, it
\* returns a non-empty fallback comment list.
C2_NeverRaisesAndFallsBack ==
    pc = "done" =>
        /\ ~raised
        /\ GenerationFailed => IsFallbackList(generated)

\* C6: the generator chosen at start-up is the one AI_PROVIDER names whenever
\* that provider's generator can be constructed.
C6_ProviderFlagSelects ==
    (StartupDone /\ constructible[AI_PROVIDER]) => generator_used = AI_PROVIDER

Rank(p) == CASE p = "anthropic" -> 1 [] p = "openai" -> 2 [] OTHER -> 3

\* C7: start-up tries the generators in the order Anthropic, OpenAI, Gemini, a
\* later one only when no earlier one was constructed; it ends with
\* comment_generator set and generator_used naming the constructed generator,
\* or it raises with none.
C7_StartupOrder ==
    /\ \A i, j \in 1..Len(tried) :
          i < j => (Rank(tried[i]) < Rank(tried[j]) /\ ~constructible[tried[i]])
    /\ StartupDone =>
          /\ comment_generator \in Providers
          /\ generator_used = comment_generator
          /\ tried # <<>> /\ tried[Len(tried)] = generator_used
          /\ constructible[generator_used]
    /\ pc = "startup_raised" => (comment_generator = "None" /\ generator_used = "None")
    /\ comment_generator = "None" <=> generator_used = "None"

\* C7's case: Anthropic was tried and failed, OpenAI was tried next and is used.
C7_Witness ==
    pc = "ready" /\ tried = <<"anthropic", "openai">> /\ generator_used = "openai"

\* C8 as stated: no step repeats its LLM call, each issues at most one request.
C8_NoRetry ==
    \A s \in DOMAIN llm_requests : llm_requests[s] <= 1

\* C8 as amended: every analysis or generation step issues at most one LLM
\* request, except the post type analysis of the OpenAI generator, which
\* issues a second one after a first that failed, and no third.
C8_AtMostOneRetry ==
    /\ llm_requests["post_context"] <= 1
    /\ llm_requests["generate"] <= 1
    /\ llm_requests["post_type"] <= (IF comment_generator = "openai" THEN 2 ELSE 1)
    /\ llm_requests["post_type"] = 2 => attempt = 1

\* C8's case: the OpenAI generator finished after two analysis requests.
C8_Witness ==
    pc = "done" /\ comment_generator = "openai" /\ llm_requests["post_type"] = 2
                /\ llm_requests["generate"] = 1

\* ------------------------------------------------------ length passes

\* A text is a sequence of tokens: "a" a letter, " " a space, "." a sentence
\* terminator (any of . ! ?), and "L" a block of WordsPerBlock one-letter words
\* separated by single spaces, which lets a short sequence stand for a long
\* comment.
Tokens == {"a", " ", ".", "L"}

\* The longest token sequence enumerated as a text.
MaxTextLen == 5

\* The number of words a block token stands for.
WordsPerBlock == 30

\* The values of avg_comment_length that are enumerated beside its absence.
MaxAvgLength == 3

Texts == SeqsUpTo(Tokens, MaxTextLen)

\* advanced_humanizer.py:286: user_style.get('avg_comment_length', 40)
DefaultAvgLength == 40

\* A user style with or without avg_comment_length (0 stands for its absence).
UserStyles == {[avg_comment_length |-> n] : n \in 0..MaxAvgLength}

\* The positions of t where a whitespace separated word starts.
WordStarts(t) == {i \in 1..Len(t) : t[i] # " " /\ (i = 1 \/ t[i - 1] = " ")}
Blocks(t) == {i \in 1..Len(t) : t[i] = "L"}

\* len(text.split()): the whitespace separated words; a block adds the words
\* behind its inner spaces.
WordCount(t) == Cardinality(WordStarts(t)) + (WordsPerBlock - 1) * Cardinality(Blocks(t))

Drop(t, n) == SubSeq(t, n + 1, Len(t))

\* The first index of t at or after i that holds (or not) a terminator, or
\* Len(t) + 1.
RECURSIVE Scan(_, _, _)
Scan(t, i, punct) ==
    IF i > Len(t) \/ ((t[i] = ".") = punct) THEN i ELSE Scan(t, i + 1, punct)

\* re.split(r'([.!?]+)', text): the texts between the terminator runs and, by
\* the capturing group, the runs themselves; always an odd number of pieces.
RECURSIVE SplitCapture(_)
SplitCapture(t) ==
    LET i == Scan(t, 1, TRUE)
        j == Scan(t, i, FALSE)
    IN IF i > Len(t) THEN <<t>>
       ELSE <<SubSeq(t, 1, i - 1), SubSeq(t, i, j - 1)>> \o SplitCapture(Drop(t, j - 1))

\* [''.join(sentences[i:i+2]) for i in range(0, len(sentences)-1, 2)]
\* (advanced_humanizer.py:300): each text with its terminators; what follows
\* the last terminator is left out.
JoinPairs(pieces) ==
    [m \in 1..((Len(pieces) - 1) \div 2) |-> pieces[2 * m - 1] \o pieces[2 * m]]

\* The loops that keep the leading sentences while the words fit
\* (advanced_humanizer.py:303-311, comment_generator_gemini.py:681-690).
RECURSIVE KeepWhileFits(_, _, _)
KeepWhileFits(sents, count, limit) ==
    IF sents = <<>> \/ count + WordCount(Head(sents)) > limit THEN <<>>
    ELSE <<Head(sents)>> \o KeepWhileFits(Tail(sents), count + WordCount(Head(sents)), limit)

\* sep.join(parts)
RECURSIVE Join(_, _)
Join(parts, sep) ==
    IF parts = <<>> THEN <<>>
    ELSE IF Len(parts) = 1 THEN parts[1]
    ELSE parts[1] \o sep \o Join(Tail(parts), sep)

\* str.strip() for the space token.
RECURSIVE Strip(_)
Strip(t) ==
    IF t = <<>> THEN t
    ELSE IF Head(t) = " " THEN Strip(Tail(t))
    ELSE IF t[Len(t)] = " " THEN Strip(SubSeq(t, 1, Len(t) - 1))
    ELSE t

TargetLength(style) ==
    IF style.avg_comment_length = 0 THEN DefaultAvgLength ELSE style.avg_comment_length

\* int(target_length * 1.3) and int(target_length * 0.7), advanced_humanizer.py:290-291
MaxLength(style) == (13 * TargetLength(style)) \div 10
MinLength(style) == (7 * TargetLength(style)) \div 10

\* AdvancedHumanizer._adjust_to_user_length, advanced_humanizer.py:281-316
adjust_to_user_length(t, style) ==
    LET current_length == WordCount(t)
        result == KeepWhileFits(JoinPairs(SplitCapture(t)), 0, MaxLength(style))
    IN IF current_length < MinLength(style) THEN t
       ELSE IF current_length > MaxLength(style) /\ result # <<>> THEN Join(result, <<" ">>)
       ELSE t

\* comment_generator_gemini.py:675 and 686
HardLimit == 50
KeepLimit == 45

\* re.split(r'[.!?]+', comment), stripped, without the empty ones
\* (comment_generator_gemini.py:677-678)
StrippedSentences(t) ==
    LET pieces == SplitCapture(t)
        texts == [m \in 1..((Len(pieces) + 1) \div 2) |-> Strip(pieces[2 * m - 1])]
    IN SelectSeq(texts, LAMBDA x : x # <<>>)

\* HumanizationEngine._adjust_length, comment_generator_gemini.py:668-706
adjust_length(t) ==
    LET sentences == StrippedSentences(t)
        kept == KeepWhileFits(SubSeq(sentences, 1, IF Len(sentences) < 3 THEN Len(sentences) ELSE 3),
                              0, KeepLimit)
        joined == Join(kept, <<".", " ">>)
    IN IF WordCount(t) > HardLimit /\ kept # <<>>
       THEN Strip(IF joined[Len(joined)] = "." THEN joined ELSE Append(joined, "."))
       ELSE Strip(t)

\* Any comment and any user style reach the length passes.
InitText ==
    /\ IdleApp
    /\ IdleFetch
    /\ IdlePara
    /\ IdleJson
    /\ IdleStore
    /\ IdleProfile
    /\ IdleHumanize
    /\ text \in Texts
    /\ user_style \in UserStyles
    /\ text_op = "none"
    /\ result_text = <<>>

\* Step 6 of humanize_comment, advanced_humanizer.py:111-112
AdjustToUserLength ==
    /\ text_op = "none"
    /\ text_op' = "adjust_to_user_length"
    /\ result_text' = adjust_to_user_length(text, user_style)
    /\ UNCHANGED <<text, user_style, nonTextVars>>

\* The last step of HumanizationEngine.humanize, comment_generator_gemini.py:585-586
AdjustLength ==
    /\ text_op = "none"
    /\ text_op' = "adjust_length"
    /\ result_text' = adjust_length(text)
    /\ UNCHANGED <<text, user_style, nonTextVars>>

NextText == AdjustToUserLength \/ AdjustLength

SpecText == InitText /\ [][NextText]_vars

\* C3: the output of _adjust_to_user_length has at most
\* int(1.3 * avg_comment_length) words, avg_comment_length defaulting to 40.
C3_WithinLengthBand ==
    text_op = "adjust_to_user_length" => WordCount(result_text) <= MaxLength(user_style)

\* C10: the output of the Gemini engine's _adjust_length has at most 50 words.
C10_HardLimitFiftyWords ==
    text_op = "adjust_length" => WordCount(result_text) <= HardLimit

\* ------------------------------------------------------------ post fetch

\* Time is counted in days before now: a date is its age, and now is 0.
Now == 0

\* The ages of the posts the API serves: within every window, within the
\* longer windows only, and older than every window.
Ages == {2, 10, 40}

\* The most posts the API serves for a profile.
MaxApiPosts == 2

\* The values of max_days and max_posts that are enumerated.
MaxDaysVals == {2, 7, 30}
MaxPostsVals == {1, 2}

\* A post as the API serves it: its text, and optionally a date under one of
\* the names _parse_post_date knows (publishedAt) and the posted_at record
\* that _normalize_post reads.
RawPosts ==
    {[text |-> "x"]}
    \cup {[text |-> "x", publishedAt |-> a] : a \in Ages}
    \cup {[text |-> "x", posted_at |-> a] : a \in Ages}
    \cup {[text |-> "x", publishedAt |-> a, posted_at |-> b] : a \in Ages, b \in Ages}

\* linkedin_scraper_api.py:35-40
time_filters == <<3, 7, 21, 30>>

\* _parse_post_date, linkedin_scraper_api.py:419-449: the date under a known
\* field name, and now when the post has none.
parse_post_date(post) ==
    IF "publishedAt" \in DOMAIN post THEN post.publishedAt ELSE Now

\* _parse_posted_at, linkedin_scraper_api.py:521-542
parse_posted_at(post) ==
    IF "posted_at" \in DOMAIN post
    THEN [kind |-> "date", age |-> post.posted_at]
    ELSE [kind |-> "None", age |-> Now]

\* _normalize_post, linkedin_scraper_api.py:494-519: the standard format has
\* content and posted_date, and none of the raw post's date fields.
normalize_post(post) ==
    [content |-> post.text, posted_date |-> parse_posted_at(post)]

\* post_date >= datetime.now() - timedelta(days=days)
IsRecent(post, days) == parse_post_date(post) <= days

\* _filter_by_recency, linkedin_scraper_api.py:225-238
filter_by_recency(posts, days) ==
    SelectSeq(posts, LAMBDA post : IsRecent(post, days))

Take(seq, n) == SubSeq(seq, 1, IF Len(seq) < n THEN Len(seq) ELSE n)

\* _fetch_posts_simple, linkedin_scraper_api.py:286-361: with status 200, the
\* first limit posts that pass the date filter, normalized; with any other
\* status or an exception, no post.
fetch_posts_simple(ok, limit, days) ==
    IF ok
    THEN LET recent == filter_by_recency(Take(api_posts, limit), days)
         IN [i \in 1..Len(recent) |-> normalize_post(recent[i])]
    ELSE <<>>

\* valid_filters, linkedin_scraper_api.py:171
valid_filters == SelectSeq(time_filters, LAMBDA d : d <= max_days)

\* The loop goes on whenever fewer than max_posts posts came back.
ExpandsBelowMaxPosts(days, posts) == Len(posts) < max_posts

\* linkedin_scraper_api.py:185-199, linkedin_fetcher_rapidapi.py:133-147:
\* whether the loop goes on to the next window after this one returned
\* posts.
Expands(days, posts) ==
    /\ Len(posts) < max_posts
    /\ \/ days = 3 /\ Len(posts) < 3
       \/ days = 7 /\ Len(posts) < 5
       \/ days = 21 /\ Len(posts) < 8

\* Any served posts and any arguments of fetch_posts.
InitFetch ==
    /\ IdleApp
    /\ IdleText
    /\ IdlePara
    /\ IdleJson
    /\ IdleStore
    /\ IdleProfile
    /\ IdleHumanize
    /\ fetcher = "scraper"
    /\ api_posts \in SeqsUpTo(RawPosts, MaxApiPosts)
    /\ max_days \in MaxDaysVals
    /\ max_posts \in MaxPostsVals
    /\ fetch_pc = "idle"
    /\ windows_tried = <<>>
    /\ posts_found = <<>>
    /\ all_posts = <<>>
    /\ fetch_result = <<>>

\* fetch_posts with use_smart_filtering=False, linkedin_scraper_api.py:140-149
FetchSimple ==
    /\ fetch_pc = "idle"
    /\ fetcher = "scraper"
    /\ \E ok \in BOOLEAN :
        LET posts == fetch_posts_simple(ok, max_posts, max_days)
        IN /\ fetch_result' = filter_by_recency(posts, max_days)
           /\ posts_found' = <<Len(posts)>>
    /\ windows_tried' = <<max_days>>
    /\ fetch_pc' = "returned"
    /\ UNCHANGED <<fetcher, api_posts, max_days, max_posts, all_posts, nonFetchVars>>

\* fetch_posts with use_smart_filtering=True enters
\* _fetch_posts_smart_with_recency_check, linkedin_scraper_api.py:138-139, or
\* _fetch_posts_smart, linkedin_fetcher_rapidapi.py:98-99
FetchSmart ==
    /\ fetch_pc = "idle"
    /\ fetch_pc' = "smart"
    /\ UNCHANGED <<fetcher, api_posts, max_days, max_posts, windows_tried, posts_found, all_posts,
                   fetch_result, nonFetchVars>>

\* LinkedInFetcherRapidAPI._parse_post_date, linkedin_fetcher_rapidapi.py:272-292:
\* the date under created_at, and now when the post has none.
rapidapi_parse_post_date(post) ==
    IF "created_at" \in DOMAIN post THEN post.created_at ELSE Now

\* LinkedInFetcherRapidAPI._fetch_posts_simple, linkedin_fetcher_rapidapi.py:159-212:
\* with status 200, the served posts that pass the date filter, normalized;
\* with any other status or an exception, no post. The count is left to
\* the API.
rapidapi_fetch_posts_simple(ok, days) ==
    IF ok
    THEN LET recent == SelectSeq(api_posts, LAMBDA post : rapidapi_parse_post_date(post) <= days)
         IN [i \in 1..Len(recent) |->
                [content |-> recent[i].text,
                 posted_date |-> [kind |-> "date", age |-> rapidapi_parse_post_date(recent[i])]]]
    ELSE <<>>

\* posts = self._fetch_posts_simple(...) in the window loop:
\* linkedin_scraper_api.py:179 asks for max_posts * 2 posts,
\* linkedin_fetcher_rapidapi.py:127 for max_posts.
WindowPosts(ok, days) ==
    IF fetcher = "scraper" THEN fetch_posts_simple(ok, max_posts * 2, days)
    ELSE rapidapi_fetch_posts_simple(ok, days)

\* One turn of the window loop, linkedin_scraper_api.py:173-201 and
\* linkedin_fetcher_rapidapi.py:121-150; the RapidAPI fetcher has no
\* max_days and runs with max_days = 30.
SmartTryWindow ==
    /\ fetch_pc = "smart"
    /\ Len(windows_tried) < Len(valid_filters)
    /\ LET days == valid_filters[Len(windows_tried) + 1]
       IN /\ windows_tried' = Append(windows_tried, days)
          /\ \E ok \in BOOLEAN :
               LET posts == WindowPosts(ok, days)
               IN /\ all_posts' = IF posts # <<>> THEN posts ELSE all_posts
                  /\ posts_found' = Append(posts_found, Len(posts))
                  /\ fetch_pc' = IF posts # <<>> /\ ~Expands(days, posts)
                                 THEN "filter" ELSE "smart"
    /\ UNCHANGED <<fetcher, api_posts, max_days, max_posts, fetch_result, nonFetchVars>>

\* After the loop, linkedin_scraper_api.py:203-223 and
\* linkedin_fetcher_rapidapi.py:152-157
SmartReturn ==
    /\ \/ fetch_pc = "filter"
       \/ fetch_pc = "smart" /\ Len(windows_tried) = Len(valid_filters)
    /\ fetch_result' = IF fetcher = "scraper"
                       THEN Take(filter_by_recency(all_posts, max_days), max_posts)
                       ELSE Take(all_posts, max_posts)
    /\ fetch_pc' = "returned"
    /\ UNCHANGED <<fetcher, api_posts, max_days, max_posts, windows_tried, posts_found, all_posts,
                   nonFetchVars>>

NextFetch == FetchSimple \/ FetchSmart \/ SmartTryWindow \/ SmartReturn

SpecFetch == InitFetch /\ [][NextFetch]_vars

\* C4: fetch_posts returns no post whose posted date is earlier than now
\* minus max_days.
C4_OnlyRecentPosts ==
    fetch_pc = "returned" =>
        \A i \in 1..Len(fetch_result) :
            fetch_result[i].posted_date.kind = "date" => fetch_result[i].posted_date.age <= max_days

\* ---- the smart fetch of both fetchers

\* The ages of the posts of a feed: within every window, and within the
\* windows from 7, 21 and 30 days on.
SmartAges == <<2, 5, 10, 25>>

\* The most posts a feed holds: the threshold of the 21 day window.
MaxSmartPosts == 8

\* The values of max_posts below and above the thresholds of the windows.
SmartMaxPostsVals == {2, 10}

\* n copies of x
Repeat(x, n) == [i \in 1..n |-> x]

\* A post with its date under the name each fetcher reads.
DatedPost(a) == [text |-> "x", publishedAt |-> a, created_at |-> a]

\* The feeds: up to MaxSmartPosts dated posts, newest first.
Feeds ==
    LET all == {Repeat(DatedPost(SmartAges[1]), a) \o Repeat(DatedPost(SmartAges[2]), b)
     \o Repeat(DatedPost(SmartAges[3]), c) \o Repeat(DatedPost(SmartAges[4]), d) :
        a \in 0..MaxSmartPosts, b \in 0..MaxSmartPosts, c \in 0..MaxSmartPosts,
        d \in 0..MaxSmartPosts}
    IN {feed \in all : Len(feed) <= MaxSmartPosts}

\* Any feed and any arguments of a fetch_posts with smart filtering, of
\* either fetcher.
InitSmart ==
    /\ IdleApp
    /\ IdleText
    /\ IdlePara
    /\ IdleJson
    /\ IdleStore
    /\ IdleProfile
    /\ IdleHumanize
    /\ fetcher \in {"scraper", "rapidapi"}
    /\ api_posts \in Feeds
    /\ max_days \in IF fetcher = "scraper" THEN MaxDaysVals ELSE {30}
    /\ max_posts \in SmartMaxPostsVals
    /\ fetch_pc = "idle"
    /\ windows_tried = <<>>
    /\ posts_found = <<>>
    /\ all_posts = <<>>
    /\ fetch_result = <<>>

NextSmart == FetchSmart \/ SmartTryWindow \/ SmartReturn

\* fetch_posts runs to its return: the loop and what follows it are
\* straight-line code.
SpecSmart == InitSmart /\ [][NextSmart]_vars /\ WF_vars(NextSmart)

\* The windows of C16 that are not longer than max_days.
WindowsWithin == SelectSeq(<<3, 7, 21, 30>>, LAMBDA d : d <= max_days)

\* Whether the fetch stops at a window that returned n posts.
StopsAt(days, n) ==
    \/ n >= max_posts
    \/ days = 3 /\ n >= 3
    \/ days = 7 /\ n >= 5
    \/ days = 21 /\ n >= 8
    \/ days = 30 /\ n >= 1

\* The windows are tried in order, once each; every window that was left
\* behind fell short, and the loop was left at a window that did not, or
\* after the last one.
SmartFetchRule ==
    /\ Len(windows_tried) <= 4
    /\ Len(posts_found) = Len(windows_tried)
    /\ windows_tried = SubSeq(WindowsWithin, 1, Len(windows_tried))
    /\ \A i \in 1..Len(windows_tried) :
        (i < Len(windows_tried) \/ fetch_pc = "smart") => ~StopsAt(windows_tried[i], posts_found[i])
    /\ fetch_pc \in {"filter", "returned"} =>
        \/ windows_tried = WindowsWithin
        \/ /\ windows_tried # <<>>
           /\ StopsAt(windows_tried[Len(windows_tried)], posts_found[Len(posts_found)])

\* C16: the smart fetch tries the windows 3, 7, 21, 30 days in order, those
\* not longer than max_days, once each; it stops at the first window that
\* returns at least max_posts posts, or 3 at 3 days, 5 at 7, 8 at 21, or
\* any at 30, and expands otherwise; it returns after at most 4 fetches.
C16_SmartFetchWindows == [](SmartFetchRule) /\ <>(fetch_pc = "returned")

\* The fetch stopped at 7 days on 5 posts, fewer than max_posts.
C16_Witness ==
    /\ fetch_pc = "returned"
    /\ windows_tried = <<3, 7>>
    /\ posts_found[2] >= 5
    /\ posts_found[2] < max_posts

\* ----------------------------------------------------- paraphrase service

\* The characters of the texts exchanged with the humanizer webhook, and the
\* longest text enumerated.
ParaChars == {"a", "b", " "}
MaxParaLen == 2

ParaTexts == SeqsUpTo(ParaChars, MaxParaLen)

\* A JSON value found where the output is looked for: a string, null, or a
\* number (any value that is neither, and is truthy).
OutputVals ==
    {[kind |-> "str", str |-> t] : t \in ParaTexts}
    \cup {[kind |-> "None", str |-> <<>>], [kind |-> "number", str |-> <<>>]}

\* The shapes of a response body: not JSON at all; a list that is empty, or
\* whose first item is a dict with or without "output", a string, or
\* something else; a dict with "output", with "content" only, or with
\* neither; any other JSON value.
ShapesWithOutput == {"list_of_dict", "list_of_str", "dict_output", "dict_content"}
ShapesWithoutOutput == {"not_json", "empty_list", "list_of_dict_no_output", "list_of_other",
                        "dict_other", "scalar"}

Bodies ==
    {[shape |-> sh, output |-> o] :
        sh \in ShapesWithOutput \ {"list_of_str"}, o \in OutputVals}
    \cup {[shape |-> "list_of_str", output |-> o] :
            o \in {v \in OutputVals : v.kind = "str"}}
    \cup {[shape |-> sh, output |-> [kind |-> "None", str |-> <<>>]] : sh \in ShapesWithoutOutput}

Statuses == {200, 401, 429, 500}

\* What requests.post can do: raise Timeout, ConnectionError or another
\* exception, or return a response with a status and a body.
HttpOutcomes ==
    {[kind |-> k, status |-> 0, body |-> NoOutcome.body] :
        k \in {"Timeout", "ConnectionError", "RequestException"}}
    \cup {[kind |-> "response", status |-> st, body |-> b] : st \in Statuses, b \in Bodies}

\* paraphrase_service.py:24: bool(self.username and self.password)
enabled == credentials.username /\ credentials.password

\* A guard that lets whitespace through: "if not text".
IsEmptyText(t) == t = <<>>

\* paraphrase_service.py:46: not text or not text.strip()
IsBlankText(t) == t = <<>> \/ Strip(t) = <<>>

StrVal(t) == [kind |-> "str", str |-> t]

\* paraphrase_service.py:79-91: the value of humanized after the body was
\* looked through.
Humanized(body, t) ==
    IF body.shape \in {"list_of_dict", "list_of_str", "dict_output", "dict_content"}
    THEN body.output
    ELSE StrVal(t)

\* The try block of paraphrase, paraphrase_service.py:50-112: the value it
\* returns, or the exception it ends with.
TryBlock(t, outcome) ==
    IF outcome.kind # "response" THEN [exc |-> outcome.kind, value |-> <<>>]
    ELSE IF outcome.status # 200 THEN [exc |-> "none", value |-> t]
    ELSE IF outcome.body.shape = "not_json" THEN [exc |-> "ValueError", value |-> <<>>]
    ELSE LET humanized == Humanized(outcome.body, t)
         IN IF humanized.kind = "None" THEN [exc |-> "none", value |-> t]
            ELSE IF humanized.kind # "str" THEN [exc |-> "AttributeError", value |-> <<>>]
            ELSE IF humanized.str # <<>> /\ Strip(humanized.str) # <<>> /\ humanized.str # t
                 THEN [exc |-> "none", value |-> Strip(humanized.str)]
                 ELSE [exc |-> "none", value |-> t]

\* The exceptions the except clauses of paraphrase_service.py:114-129 catch:
\* Timeout, ConnectionError, and every other Exception.
Caught == {"Timeout", "ConnectionError", "RequestException", "ValueError", "AttributeError"}

\* Any credentials and any text.
InitPara ==
    /\ IdleApp
    /\ IdleText
    /\ IdleFetch
    /\ IdleJson
    /\ IdleStore
    /\ IdleProfile
    /\ IdleHumanize
    /\ credentials \in [{"username", "password"} -> BOOLEAN]
    /\ para_text \in ParaTexts
    /\ para_pc = "idle"
    /\ http_outcome = NoOutcome
    /\ http_requests = 0
    /\ para_result = <<>>

\* paraphrase when the service is disabled or the text is blank,
\* paraphrase_service.py:42-48
ParaphraseReturnsOriginal ==
    /\ para_pc = "idle"
    /\ ~enabled \/ IsBlankText(para_text)
    /\ para_result' = para_text
    /\ para_pc' = "returned"
    /\ UNCHANGED <<credentials, para_text, http_outcome, http_requests, nonParaVars>>

\* paraphrase with its HTTP request, paraphrase_service.py:50-129
ParaphraseWithRequest ==
    /\ para_pc = "idle"
    /\ enabled /\ ~IsBlankText(para_text)
    /\ \E outcome \in HttpOutcomes :
        LET r == TryBlock(para_text, outcome)
        IN /\ http_outcome' = outcome
           /\ http_requests' = http_requests + 1
           /\ IF r.exc = "none"
              THEN para_result' = r.value /\ para_pc' = "returned"
              ELSE IF r.exc \in Caught
              THEN para_result' = para_text /\ para_pc' = "returned"
              ELSE para_result' = <<>> /\ para_pc' = "raised"
    /\ UNCHANGED <<credentials, para_text, nonParaVars>>

NextPara == ParaphraseReturnsOriginal \/ ParaphraseWithRequest

SpecPara == InitPara /\ [][NextPara]_vars

OnlySpaces(t) == \A i \in 1..Len(t) : t[i] = " "

\* The response body holds no usable output: no string is found where the
\* output is looked for, or that string is blank or is the input itself.
NoUsableOutput ==
    \/ http_outcome.body.shape \in ShapesWithoutOutput
    \/ http_outcome.body.output.kind # "str"
    \/ OnlySpaces(http_outcome.body.output.str)
    \/ http_outcome.body.output.str = para_text

\* C5: paraphrase never raises; it returns its input unchanged when the
\* service is disabled, the text is empty or blank, the HTTP status is not
\* 200, the request times out or cannot connect, or the body holds no usable
\* output; disabled or with a blank text it makes no HTTP request.
C5_ParaphraseFallsBackToInput ==
    /\ para_pc # "raised"
    /\ (~(credentials.username /\ credentials.password) \/ OnlySpaces(para_text)) =>
            http_requests = 0
    /\ para_pc = "returned" =>
        /\ (~(credentials.username /\ credentials.password) \/ OnlySpaces(para_text)) =>
                para_result = para_text
        /\ (http_outcome.kind \in {"Timeout", "ConnectionError"}) => para_result = para_text
        /\ (http_outcome.kind = "response" /\ http_outcome.status # 200) =>
                para_result = para_text
        /\ (http_outcome.kind = "response" /\ NoUsableOutput) => para_result = para_text

\* A request was made for a text with surrounding spaces, and the answer
\* echoed the text: the input comes back as it was, spaces included.
C5_Witness ==
    /\ para_pc = "returned"
    /\ http_requests = 1
    /\ http_outcome.kind = "response" /\ http_outcome.status = 200
    /\ http_outcome.body.shape = "list_of_dict"
    /\ http_outcome.body.output = [kind |-> "str", str |-> para_text]
    /\ para_text = <<" ", "a">>
    /\ para_result = para_text

\* ---------------------------------------------------------- JSON cleaning

\* An LLM response is a sequence of tokens: the punctuation of JSON, "q" for
\* the double quote, "a" for a letter, " " for white space (a space or a
\* newline), "fence" for a fence and "json" for the word after an opening fence.
StringChars == {"a", ",", "}", " "}
ProseChars == {"a", " ", ","}

\* The longest string value and the longest prose enumerated.
MaxValueLen == 2
MaxProseLen == 1

\* J stands alone, in a plain fence, or in a fence that names json.
Fences == {"none", "plain", "json"}

\* The JSON object text J: {"a": "<value>"}
ObjectText(value) ==
    <<"{", "q", "a", "q", ":", " ", "q">> \o value \o <<"q", "}">>

\* J, optionally fenced as in test_json_parsing.py:31-44, between the prose.
Wrapped(before, fnc, value, after) ==
    before
    \o (IF fnc = "none" THEN ObjectText(value)
        ELSE (IF fnc = "json" THEN <<"fence", "json", " ">> ELSE <<"fence", " ">>)
             \o ObjectText(value) \o <<" ", "fence">>)
    \o after

\* The first index at or after i where sep occurs in t, or 0.
RECURSIVE IndexFrom(_, _, _)
IndexFrom(t, sep, i) ==
    IF i + Len(sep) - 1 > Len(t) THEN 0
    ELSE IF SubSeq(t, i, i + Len(sep) - 1) = sep THEN i
    ELSE IndexFrom(t, sep, i + 1)

\* sep in text
Contains(t, sep) == IndexFrom(t, sep, 1) # 0

\* text.split(sep)[0]
SplitFirst(t, sep) ==
    LET i == IndexFrom(t, sep, 1)
    IN IF i = 0 THEN t ELSE SubSeq(t, 1, i - 1)

\* text.split(sep)[1], for a text that contains sep
SplitSecond(t, sep) ==
    SplitFirst(Drop(t, IndexFrom(t, sep, 1) + Len(sep) - 1), sep)

\* text.find(c) and text.rfind(c), 1-based, 0 for Python's -1
Find(t, c) == IndexFrom(t, <<c>>, 1)

RECURSIVE RFindFrom(_, _, _)
RFindFrom(t, c, i) ==
    IF i = 0 THEN 0 ELSE IF t[i] = c THEN i ELSE RFindFrom(t, c, i - 1)

RFind(t, c) == RFindFrom(t, c, Len(t))

\* The first index of t at or after i that holds no white space, or Len(t) + 1.
RECURSIVE SkipSpace(_, _)
SkipSpace(t, i) ==
    IF i > Len(t) \/ t[i] # " " THEN i ELSE SkipSpace(t, i + 1)

\* re.sub(r',\s*}', '}', text) and re.sub(r',\s*]', ']', text): every comma
\* that only white space separates from the closing token goes, with the
\* white space.
RECURSIVE RemoveCommaBefore(_, _)
RemoveCommaBefore(t, close) ==
    IF t = <<>> THEN <<>>
    ELSE LET k == SkipSpace(t, 2)
         IN IF Head(t) = "," /\ k <= Len(t) /\ t[k] = close
            THEN <<close>> \o RemoveCommaBefore(Drop(t, k), close)
            ELSE <<Head(t)>> \o RemoveCommaBefore(Tail(t), close)

\* clean_json_response, test_json_parsing.py:10-27
clean_json_response(t) ==
    LET inner == IF Contains(t, <<"fence", "json">>)
                 THEN SplitFirst(SplitSecond(t, <<"fence", "json">>), <<"fence">>)
                 ELSE IF Contains(t, <<"fence">>)
                 THEN SplitFirst(SplitSecond(t, <<"fence">>), <<"fence">>)
                 ELSE t
        stripped == Strip(inner)
        start == Find(stripped, "{")
        end == RFind(stripped, "}")
    IN IF start # 0 /\ end # 0 THEN SubSeq(stripped, start, end) ELSE stripped

\* CommentGenerator._clean_json, comment_generator_anthropic.py:457-479
clean_json(t) ==
    RemoveCommaBefore(RemoveCommaBefore(clean_json_response(t), "}"), "]")

\* json.loads on the texts at hand: the string value of an object with the
\* single key "a", when the text is such an object; the texts enumerated are
\* too short to hold another document with a second pair.
ParseObject(t) ==
    LET i1 == SkipSpace(t, 1)
        i2 == SkipSpace(t, i1 + 1)
        i3 == SkipSpace(t, i2 + 3)
        i4 == SkipSpace(t, i3 + 1)
        j  == IndexFrom(t, <<"q">>, i4 + 1)
        i5 == SkipSpace(t, j + 1)
    IN IF /\ i1 <= Len(t) /\ t[i1] = "{"
          /\ i2 + 2 <= Len(t) /\ SubSeq(t, i2, i2 + 2) = <<"q", "a", "q">>
          /\ i3 <= Len(t) /\ t[i3] = ":"
          /\ i4 <= Len(t) /\ t[i4] = "q"
          /\ j # 0
          /\ i5 <= Len(t) /\ t[i5] = "}"
          /\ SkipSpace(t, i5 + 1) = Len(t) + 1
       THEN [ok |-> TRUE, value |-> SubSeq(t, i4 + 1, j - 1)]
       ELSE [ok |-> FALSE, value |-> <<>>]

\* The LLM response handed to the cleaning function.
response_text == Wrapped(prose_before, fence, json_value, prose_after)

\* Any string value, any fence and any prose around.
InitJson ==
    /\ IdleApp
    /\ IdleText
    /\ IdleFetch
    /\ IdlePara
    /\ IdleStore
    /\ IdleProfile
    /\ IdleHumanize
    /\ json_value \in SeqsUpTo(StringChars, MaxValueLen)
    /\ fence \in Fences
    /\ prose_before \in SeqsUpTo(ProseChars, MaxProseLen)
    /\ prose_after \in SeqsUpTo(ProseChars, MaxProseLen)
    /\ json_op = "none"
    /\ cleaned = <<>>

\* comment_generator_anthropic.py:83: response_text = self._clean_json(response_text)
CleanJson ==
    /\ json_op = "none"
    /\ json_op' = "_clean_json"
    /\ cleaned' = clean_json(response_text)
    /\ UNCHANGED <<json_value, fence, prose_before, prose_after, nonJsonVars>>

\* test_json_parsing.py:53: cleaned = clean_json_response(test)
CleanJsonResponse ==
    /\ json_op = "none"
    /\ json_op' = "clean_json_response"
    /\ cleaned' = clean_json_response(response_text)
    /\ UNCHANGED <<json_value, fence, prose_before, prose_after, nonJsonVars>>

NextJson == CleanJson \/ CleanJsonResponse

SpecJson == InitJson /\ [][NextJson]_vars

\* C9: whatever the fence and the prose around the JSON object J, the text
\* the JSON cleaning function returns parses to the same value as J.
C9_CleaningKeepsValue ==
    json_op # "none" =>
        /\ ParseObject(cleaned).ok
        /\ ParseObject(cleaned).value = json_value

\* ------------------------------------------- in-memory stores and endpoints

\* The most users, targets, comments of one generation and stored comments
\* that are enumerated.
MaxUsers == 2
MaxTargets == 1
MaxGenerated == 2
MaxStoredComments == 2

\* The numbers of posts one target analysis stores that are enumerated.
StoredPostCounts == {0, 1}

\* len(db) + 1, main.py:310, 417, 445 and 586
NewId(db) == Len(db) + 1

\* The ids a request can name: every id the store holds, and the first one it
\* does not hold.
RequestIds(db) == 1..NewId(db)

Answer(status) == [NoAnswer EXCEPT !.status = status]

\* A post record that names the target after its own.
PostRecordOfNextTarget(post_id, target_id) == [id |-> post_id, target_id |-> target_id + 1]

\* main.py:446-454
PostRecord(post_id, target_id) == [id |-> post_id, target_id |-> target_id]

\* posts[:20] stored one after the other, main.py:444-454
RECURSIVE StorePosts(_, _, _)
StorePosts(db, target_id, k) ==
    IF k = 0 THEN db
    ELSE StorePosts(Append(db, PostRecord(NewId(db), target_id)), target_id, k - 1)

\* The time of the n-th datetime.now() after the clock read c, given the
\* ticks between the calls.
RECURSIVE TimeAfter(_, _, _)
TimeAfter(c, ticks, n) == IF n = 0 THEN c ELSE TimeAfter(c, ticks, n - 1) + ticks[n]

\* The loop of main.py:585-595: one record per generated comment, each with
\* its own datetime.now().
RECURSIVE StoreComments(_, _, _, _, _)
StoreComments(db, user_id, post_id, ticks, n) ==
    IF n = 0 THEN db
    ELSE Append(StoreComments(db, user_id, post_id, ticks, n - 1),
                [id |-> Len(db) + n, user_id |-> user_id, post_id |-> post_id,
                 created_at |-> TimeAfter(clock, ticks, n)])

\* A check that stops at the user.
MissingUserOnly(u, p) ==
    IF u \notin DOMAIN users_db THEN "user" ELSE "none"

\* main.py:503-518: what generate_comments finds missing, in the order it
\* looks.
Missing(u, p) ==
    IF u \notin DOMAIN users_db THEN "user"
    ELSE IF p \notin DOMAIN posts_db THEN "post"
    ELSE IF posts_db[p].target_id \notin DOMAIN targets_db THEN "target"
    ELSE "none"

\* datetime.isoformat(), as character codes: a time is counted in half
\* seconds, the seconds are written as a digit, and the fraction is written
\* only when it is not zero.
IsoFormat(t) ==
    <<48 + (t \div 2)>> \o (IF t % 2 = 0 THEN <<>> ELSE <<46, 53>>)

\* a < b for two strings
RECURSIVE StrLess(_, _)
StrLess(a, b) ==
    IF b = <<>> THEN FALSE
    ELSE IF a = <<>> THEN TRUE
    ELSE IF Head(a) # Head(b) THEN Head(a) < Head(b)
    ELSE StrLess(Tail(a), Tail(b))

\* sorted(..., key=created_at) without reverse: stable, oldest first.
RECURSIVE SortedOldestFirst(_)
SortedOldestFirst(items) ==
    IF items = <<>> THEN <<>>
    ELSE LET rest == SortedOldestFirst(Tail(items))
             x == Head(items)
             k == Cardinality({i \in 1..Len(rest) : StrLess(rest[i].created_at, x.created_at)})
         IN SubSeq(rest, 1, k) \o <<x>> \o SubSeq(rest, k + 1, Len(rest))

\* sorted(user_comments, key=lambda x: x["created_at"], reverse=True),
\* main.py:656: stable, the greatest created_at string first.
RECURSIVE SortedNewestFirst(_)
SortedNewestFirst(items) ==
    IF items = <<>> THEN <<>>
    ELSE LET rest == SortedNewestFirst(Tail(items))
             x == Head(items)
             k == Cardinality({i \in 1..Len(rest) : StrLess(x.created_at, rest[i].created_at)})
         IN SubSeq(rest, 1, k) \o <<x>> \o SubSeq(rest, k + 1, Len(rest))

\* main.py:640-651: the comments of the user, in the order of comments_db
user_comments(u) ==
    LET mine == SelectSeq(comments_db, LAMBDA c : c.user_id = u)
    IN [i \in 1..Len(mine) |->
            [comment_id |-> mine[i].id, post_id |-> mine[i].post_id,
             created_at |-> IsoFormat(mine[i].created_at)]]

InitStore ==
    /\ IdleApp
    /\ IdleText
    /\ IdleFetch
    /\ IdlePara
    /\ IdleJson
    /\ IdleStore
    /\ IdleProfile
    /\ IdleHumanize

\* POST /api/user/profile, main.py:256-358: 404 without a saved profile, 500
\* when the analysis raises, and otherwise a new user.
CreateUserProfile ==
    /\ request' = [endpoint |-> "create_user", user_id |-> 0, post_id |-> 0]
    /\ \E outcome \in {"not_found", "error", "stored"} :
        IF outcome = "stored"
        THEN /\ Len(users_db) < MaxUsers
             /\ users_db' = Append(users_db, [id |-> NewId(users_db)])
             /\ response' = Answer(200)
        ELSE /\ response' = Answer(IF outcome = "not_found" THEN 404 ELSE 500)
             /\ UNCHANGED users_db
    /\ UNCHANGED <<targets_db, posts_db, comments_db, clock, nonStoreVars>>

\* POST /api/target/analyze, main.py:378-489: the target is stored before
\* its posts, and a post that cannot be answered ends the request with 500
\* after it was stored.
AnalyzeTarget ==
    \E u \in RequestIds(users_db) :
        /\ request' = [endpoint |-> "analyze_target", user_id |-> u, post_id |-> 0]
        /\ IF u \notin DOMAIN users_db
           THEN response' = Answer(404) /\ UNCHANGED <<targets_db, posts_db>>
           ELSE \E outcome \in {"not_found", "error", "stored"} :
                IF outcome = "stored"
                THEN /\ Len(targets_db) < MaxTargets
                     /\ targets_db' = Append(targets_db, [id |-> NewId(targets_db)])
                     /\ \E k \in StoredPostCounts, fails \in BOOLEAN :
                          /\ posts_db' = StorePosts(posts_db, NewId(targets_db), k)
                          /\ response' = Answer(IF fails THEN 500 ELSE 200)
                ELSE /\ response' = Answer(IF outcome = "not_found" THEN 404 ELSE 500)
                     /\ UNCHANGED <<targets_db, posts_db>>
        /\ UNCHANGED <<users_db, comments_db, clock, nonStoreVars>>

\* POST /api/comments/generate, main.py:492-631: 404 for what is missing;
\* otherwise 500 when a step raises, before or in the generator, and else
\* the generated comments are stored.
GenerateCommentsEndpoint ==
    \E u \in RequestIds(users_db), p \in RequestIds(posts_db) :
        /\ request' = [endpoint |-> "generate", user_id |-> u, post_id |-> p]
        /\ IF Missing(u, p) # "none"
           THEN response' = Answer(404) /\ UNCHANGED <<comments_db, clock>>
           ELSE \/ /\ \E called \in BOOLEAN :
                        response' = [Answer(500) EXCEPT !.generator_called = called]
                   /\ UNCHANGED <<comments_db, clock>>
                \/ \E n \in 1..MaxGenerated : \E ticks \in [1..n -> {0, 1}] :
                     /\ Len(comments_db) + n <= MaxStoredComments
                     /\ comments_db' = StoreComments(comments_db, u, p, ticks, n)
                     /\ clock' = TimeAfter(clock, ticks, n)
                     /\ response' = [Answer(200) EXCEPT !.generator_called = TRUE]
        /\ UNCHANGED <<users_db, targets_db, posts_db, nonStoreVars>>

\* GET /api/history/{user_id}, main.py:634-657
GetHistory ==
    \E u \in RequestIds(users_db) :
        /\ request' = [endpoint |-> "history", user_id |-> u, post_id |-> 0]
        /\ response' = IF u \notin DOMAIN users_db THEN Answer(404)
                       ELSE [Answer(200) EXCEPT !.total_comments = Len(user_comments(u)),
                                                !.comments = SortedNewestFirst(user_comments(u))]
        /\ UNCHANGED <<users_db, targets_db, posts_db, comments_db, clock, nonStoreVars>>

NextStore == CreateUserProfile \/ AnalyzeTarget \/ GenerateCommentsEndpoint \/ GetHistory

SpecStore == InitStore /\ [][NextStore]_vars

\* C11: POST /api/comments/generate answers 404 when the user, else the
\* post, else the post's target is not stored; the four stores are then
\* unchanged and no comment generator was called.
C11_NotFoundLeavesStores ==
    [][(/\ request'.endpoint = "generate"
        /\ \/ request'.user_id \notin DOMAIN users_db
           \/ request'.post_id \notin DOMAIN posts_db
           \/ posts_db[request'.post_id].target_id \notin DOMAIN targets_db)
       => /\ response'.status = 404
          /\ ~response'.generator_called
          /\ UNCHANGED <<users_db, targets_db, posts_db, comments_db>>]_vars

\* A generation for a stored user and a post that is not stored was answered
\* 404 while comments of an earlier generation were stored.
C11_Witness ==
    /\ request.endpoint = "generate"
    /\ request.user_id \in DOMAIN users_db
    /\ request.post_id \notin DOMAIN posts_db
    /\ response.status = 404
    /\ comments_db # <<>>

CommentsOf(u) == {c \in DOMAIN comments_db : comments_db[c].user_id = u}

\* C12: GET /api/history answers 404 for an unknown user id, and otherwise
\* exactly the stored comments of that user, newest created_at first, with
\* total_comments their number.
C12_HistoryOfUser ==
    request.endpoint = "history" =>
        IF request.user_id \notin DOMAIN users_db
        THEN response.status = 404
        ELSE LET body == response.comments
             IN /\ response.status = 200
                /\ {body[i].comment_id : i \in 1..Len(body)} = CommentsOf(request.user_id)
                /\ Len(body) = Cardinality(CommentsOf(request.user_id))
                /\ response.total_comments = Len(body)
                /\ \A i \in 1..Len(body) :
                        body[i].post_id = comments_db[body[i].comment_id].post_id
                /\ \A i, j \in 1..Len(body) :
                        i < j => comments_db[body[i].comment_id].created_at
                                    >= comments_db[body[j].comment_id].created_at

\* A history of two comments created at different times, the later one
\* stored last and answered first, while the other user has none.
C12_Witness ==
    /\ request.endpoint = "history"
    /\ response.status = 200
    /\ Len(users_db) = 2
    /\ Len(response.comments) = 2
    /\ response.comments[1].comment_id = 2
    /\ comments_db[2].created_at > comments_db[1].created_at

\* C17: every stored post names a stored target, and every stored comment
\* names a stored user and a stored post.
C17_ReferentialIntegrity ==
    /\ \A p \in DOMAIN posts_db : posts_db[p].target_id \in DOMAIN targets_db
    /\ \A c \in DOMAIN comments_db :
        /\ comments_db[c].user_id \in DOMAIN users_db
        /\ comments_db[c].post_id \in DOMAIN posts_db

\* Two comments are stored, the later one generated for the second user on a
\* stored post.
C17_Witness ==
    /\ Len(comments_db) = 2
    /\ comments_db[2].user_id = 2
    /\ posts_db # <<>>
    /\ request.endpoint = "generate"

\* ---------------------------------------------------- user profile manager

\* The comment samples: three plain ones, and one holding a lone surrogate,
\* which a str can hold and UTF-8 cannot encode.
PlainComments == {"a", "b", "c"}
SampleComments == PlainComments \cup {"lone_surrogate"}

\* The longest real_comments of a profile handed to save_profile.
MaxSamples == 2

IsDuplicateFree(seq) == \A i, j \in 1..Len(seq) : seq[i] = seq[j] => i = j

\* create_profile_structure, user_profile_manager.py:142-185: real_comments
\* and analysis.total_comments_analyzed = len(real_comments); the other
\* fields hold what the caller put there, JSON values or not (a datetime).
ProfileData ==
    {[kind |-> "dict", real_comments |-> rc, total_comments_analyzed |-> Len(rc),
      other |-> o, metadata_username |-> "None"] :
        rc \in {x \in SeqsUpTo(PlainComments, MaxSamples) : IsDuplicateFree(x)},
        o \in {"json", "datetime"}}

\* user_profile_manager.py:49-53: profile_data['_metadata'] = {'username': ...}
WithMetadata(profile) == [profile EXCEPT !.metadata_username = "u"]

\* json.dump can write the whole profile: every value is a JSON value and
\* every string can be encoded.
Dumpable(profile) ==
    /\ profile.other = "json"
    /\ \A i \in 1..Len(profile.real_comments) : profile.real_comments[i] # "lone_surrogate"

\* user_profile_manager.py:56-57: open(filepath, 'w') empties the file, and
\* json.dump writes it up to the value it cannot write.
WrittenFile(file, profile) ==
    IF Dumpable(profile) THEN [kind |-> "json", profile |-> profile]
    ELSE [kind |-> "partial", profile |-> NoProfile]

\* load_profile, user_profile_manager.py:66-92: None without a file, and
\* None when json.load raises.
load_profile(file) == IF file.kind = "json" THEN file.profile ELSE NoProfile

\* profile_exists, user_profile_manager.py:94-97
profile_exists(file) == file.kind # "absent"

Returned(b) == [NoReturn EXCEPT !.bool = b]

\* The profiles directory holds no file for u.
InitProfile ==
    /\ IdleApp
    /\ IdleText
    /\ IdleFetch
    /\ IdlePara
    /\ IdleJson
    /\ IdleStore
    /\ IdleProfile
    /\ IdleHumanize

\* save_profile, user_profile_manager.py:34-64
SaveProfile ==
    \E data \in ProfileData, opens \in BOOLEAN :
        LET profile == WithMetadata(data)
        IN /\ pm_call' = [op |-> "save_profile", comment |-> "None"]
           /\ profile_file' = IF opens THEN WrittenFile(profile_file, profile) ELSE profile_file
           /\ pm_result' = Returned(opens /\ Dumpable(profile))
           /\ last_saved' = IF opens /\ Dumpable(profile) THEN profile ELSE last_saved
           /\ UNCHANGED <<profile_before, nonProfileVars>>

\* delete_profile, user_profile_manager.py:99-109
DeleteProfile ==
    /\ pm_call' = [op |-> "delete_profile", comment |-> "None"]
    /\ profile_file' = NoFile
    /\ pm_result' = Returned(profile_exists(profile_file))
    /\ last_saved' = IF profile_exists(profile_file) THEN NoProfile ELSE last_saved
    /\ UNCHANGED <<profile_before, nonProfileVars>>

\* load_profile, user_profile_manager.py:66-92
LoadProfile ==
    /\ pm_call' = [op |-> "load_profile", comment |-> "None"]
    /\ pm_result' = [bool |-> FALSE, profile |-> load_profile(profile_file)]
    /\ UNCHANGED <<profile_file, last_saved, profile_before, nonProfileVars>>

\* profile_exists, user_profile_manager.py:94-97
ProfileExists ==
    /\ pm_call' = [op |-> "profile_exists", comment |-> "None"]
    /\ pm_result' = Returned(profile_exists(profile_file))
    /\ UNCHANGED <<profile_file, last_saved, profile_before, nonProfileVars>>

\* add_comment_sample, user_profile_manager.py:219-231: load, append when
\* the comment is new, count, and save the whole profile again.
AddCommentSample ==
    \E comment \in SampleComments :
        LET loaded == load_profile(profile_file)
            present == \E i \in 1..Len(loaded.real_comments) : loaded.real_comments[i] = comment
            changed == [loaded EXCEPT !.real_comments = Append(@, comment),
                                      !.total_comments_analyzed = Len(loaded.real_comments) + 1]
            saves == loaded.kind # "None" /\ ~present
        IN /\ pm_call' = [op |-> "add_comment_sample", comment |-> comment]
           /\ profile_before' = profile_file
           /\ profile_file' = IF saves THEN WrittenFile(profile_file, WithMetadata(changed))
                              ELSE profile_file
           /\ pm_result' = Returned(saves /\ Dumpable(changed))
           /\ last_saved' = IF saves /\ Dumpable(changed) THEN WithMetadata(changed)
                            ELSE last_saved
           /\ UNCHANGED nonProfileVars

NextProfile == SaveProfile \/ DeleteProfile \/ LoadProfile \/ ProfileExists \/ AddCommentSample

SpecProfile == InitProfile /\ [][NextProfile]_vars

\* get_real_comments, user_profile_manager.py:202-207
GetRealComments ==
    /\ pm_call' = [op |-> "get_real_comments", comment |-> "None"]
    /\ pm_result' = [bool |-> FALSE,
                     profile |-> [NoProfile EXCEPT
                                    !.real_comments = load_profile(profile_file).real_comments]]
    /\ UNCHANGED <<profile_file, last_saved, profile_before, nonProfileVars>>

\* A profile was saved, as create_profile_structure makes it and with JSON
\* values only: real_comments has no duplicates.
InitSamples ==
    /\ IdleApp
    /\ IdleText
    /\ IdleFetch
    /\ IdlePara
    /\ IdleJson
    /\ IdleStore
    /\ IdleHumanize
    /\ \E data \in {d \in ProfileData : Dumpable(d)} :
        /\ profile_file = [kind |-> "json", profile |-> WithMetadata(data)]
        /\ last_saved = WithMetadata(data)
    /\ profile_before = NoFile
    /\ pm_call = NoCall
    /\ pm_result = NoReturn

NextSamples == AddCommentSample \/ GetRealComments

SpecSamples == InitSamples /\ [][NextSamples]_vars

\* C13: load_profile returns the profile of the most recent successful
\* save_profile, with _metadata.username = u, when no delete_profile
\* followed it, and None otherwise; profile_exists is true exactly when
\* load_profile does not return None.
C13_LoadReturnsLastSave ==
    /\ pm_call.op = "load_profile" =>
        /\ pm_result.profile = last_saved
        /\ pm_result.profile.kind # "None" => pm_result.profile.metadata_username = "u"
    /\ pm_call.op = "profile_exists" =>
        (pm_result.bool <=> load_profile(profile_file).kind # "None")

\* C14: after any add_comment_sample calls on a saved profile without
\* duplicates, the stored real_comments has no duplicates and
\* analysis.total_comments_analyzed is its length; adding a comment that is
\* present returns False and leaves the stored profile unchanged.
C14_SamplesStayConsistent ==
    LET stored == load_profile(profile_file)
        before == load_profile(profile_before)
    IN /\ stored.kind # "None"
       /\ IsDuplicateFree(stored.real_comments)
       /\ stored.total_comments_analyzed = Len(stored.real_comments)
       /\ (/\ pm_call.op = "add_comment_sample"
           /\ \E i \in 1..Len(before.real_comments) : before.real_comments[i] = pm_call.comment)
          => ~pm_result.bool /\ profile_file = profile_before

\* ---------------------------------------------------------------------
\* AdvancedHumanizer (app/services/advanced_humanizer.py)
\*
\* A text is a sequence of tokens as in the length passes. A token is one
\* character of punctuation or white space (" ", ".", ",", "-") or a run
\* of word characters: "Ab" reads as a capitalised word, "ab" as a lower
\* case one. Two word tokens side by side read as one word.
\* ---------------------------------------------------------------------

\* The most pieces a comment is put together from, and the most
\* applications of humanize_comment to one comment.
MaxPieces == 2
MaxApplications == 2

\* Nine words, enough for the filler of line 237.
NineWords ==
    <<"ab", " ", "ab", " ", "ab", " ", "ab", " ", "ab", " ", "ab", " ", "ab", " ", "ab", " ", "ab">>

\* The pieces of the enumerated comments: a formal transition that is also
\* a formal connector, one that is not, a word, a sentence, white space, a
\* terminator, a phrase with a contraction, and a long run of words.
Pieces ==
    {<<"Moreover", ",", " ">>, <<"Essentially", ",", " ">>, <<"Ab">>, <<"ab", ".">>, <<" ">>, <<".">>,
     <<"do", " ", "not">>, NineWords}

RECURSIVE Concat(_)
Concat(parts) == IF parts = <<>> THEN <<>> ELSE Head(parts) \o Concat(Tail(parts))

\* The non-empty comments.
HzComments == {Concat(ps) : ps \in SeqsUpTo(Pieces, MaxPieces)} \ {<<>>}

\* user_style: typical_comment_openings, tone and avg_comment_length
\* (0 stands for its absence), the three keys the humanizer reads.
HzStyles ==
    [typical_comment_openings : {<<>>, << <<"ab">> >>},
     tone : {"casual", "professional"},
     avg_comment_length : {0, 1}]

\* random.random() in hundredths: a draw below every chance and one above.
Rolls == {0, 99}

\* Every draw counts as below its chance.
FiresAlways(roll, chance) == TRUE

\* random.random() < chance / 100
Fires(roll, chance) == roll < chance

\* What a pass returns or raises, and whether it went without a random
\* edit: every random.random() at or above its chance and no random.choice
\* among several replacements.
StrOut(t, q) == [kind |-> "str", text |-> t, quiet |-> q]
IndexError(q) == [kind |-> "IndexError", text |-> <<>>, quiet |-> q]

\* The outcomes of a pass that follows a pass which ended in o.
After(o, outs) == {[kind |-> x.kind, text |-> x.text, quiet |-> o.quiet /\ x.quiet] : x \in outs}

\* c.lower() on the first character of a token, which is str.lower() on
\* the whole of it for the tokens here.
LowerToken(x) ==
    CASE x = "Ab" -> "ab"
      [] x = "Moreover" -> "moreover"
      [] x = "Essentially" -> "essentially"
      [] x = "Honestly" -> "honestly"
      [] x = "Real" -> "real"
      [] OTHER -> x

\* str.capitalize() of an opening of one lower case word token
Capitalize(p) == IF p = <<"ab">> THEN <<"Ab">> ELSE p

\* c.isupper() on the first character of a token
IsUpperToken(x) == x \in {"Ab", "Moreover", "Essentially", "Honestly", "Real"}

\* Whether a token is made of word characters (\w).
IsWordToken(x) == x \notin {" ", ".", ",", "-"}

\* text.startswith(prefix)
StartsWith(t, prefix) == Len(t) >= Len(prefix) /\ SubSeq(t, 1, Len(prefix)) = prefix

\* Whether r'\b' + pat + r'\b' with re.IGNORECASE matches t at index i; pat
\* starts and ends with a word token.
MatchAt(t, i, pat) ==
    /\ i + Len(pat) - 1 <= Len(t)
    /\ \A k \in 1..Len(pat) : LowerToken(t[i + k - 1]) = pat[k]
    /\ i = 1 \/ ~IsWordToken(t[i - 1])
    /\ i + Len(pat) > Len(t) \/ ~IsWordToken(t[i + Len(pat)])

\* re.search(pattern, text, re.IGNORECASE): the index of the leftmost
\* match at or after i, or 0.
RECURSIVE Search(_, _, _)
Search(t, i, pat) ==
    IF i > Len(t) THEN 0 ELSE IF MatchAt(t, i, pat) THEN i ELSE Search(t, i + 1, pat)

\* re.sub(pattern, rep, text, flags=re.IGNORECASE) from index i on
RECURSIVE Sub(_, _, _, _)
Sub(t, i, pat, rep) ==
    IF i > Len(t) THEN <<>>
    ELSE IF MatchAt(t, i, pat) THEN rep \o Sub(t, i + Len(pat), pat, rep)
    ELSE <<t[i]>> \o Sub(t, i + 1, pat, rep)

\* Two of the thirteen FORMAL_TRANSITIONS, in the order of the list
\* (advanced_humanizer.py:57-71).
FORMAL_TRANSITIONS == << <<"Moreover", ",">>, <<"Essentially", ",">> >>

\* One of the fourteen CASUAL_CONNECTORS (advanced_humanizer.py:39-54):
\* "moreover": ["also", "plus", "and"].
CASUAL_CONNECTORS == [formal |-> <<"moreover">>, casual_list |-> <<"also", "plus", "and">>]

\* Three of the NATURAL_STARTERS (advanced_humanizer.py:24-36): "",
\* "Honestly,", "Real talk -", "".
NATURAL_STARTERS == << <<>>, <<"Honestly", ",">>, <<"Real", " ", "talk", " ", "-">>, <<>> >>

\* Two of the NATURAL_FILLERS (advanced_humanizer.py:74-83)
NATURAL_FILLERS == << <<"kinda">>, <<"pretty", " ", "much">> >>

\* The loop of advanced_humanizer.py:118-120 from the k-th phrase on: each
\* phrase is tested once, against the text as the earlier phrases left it.
RECURSIVE RemoveTransitions(_, _)
RemoveTransitions(t, k) ==
    IF k > Len(FORMAL_TRANSITIONS) THEN t
    ELSE LET formal == FORMAL_TRANSITIONS[k]
         IN RemoveTransitions(IF StartsWith(t, formal) THEN Strip(Drop(t, Len(formal))) ELSE t,
                              k + 1)

\* AdvancedHumanizer._remove_ai_formality, advanced_humanizer.py:116-129:
\* the texts it can return, one for each random.choice of line 126.
remove_ai_formality(txt) ==
    LET t == RemoveTransitions(txt, 1)
        i == Search(t, 1, CASUAL_CONNECTORS.formal)
        casual_list == CASUAL_CONNECTORS.casual_list
    IN IF i = 0 THEN {StrOut(t, TRUE)}
       ELSE {StrOut(SubSeq(t, 1, i - 1) \o <<casual_list[c]>> \o Drop(t, i), Len(casual_list) = 1) :
                c \in 1..Len(casual_list)}

\* AdvancedHumanizer._apply_contractions, advanced_humanizer.py:131-182, for
\* the one pattern the tokens can spell: r'\bdo not\b' becomes "don't".
apply_contractions(t) == Sub(t, 1, <<"do", " ", "not">>, <<"don't">>)

\* str.rstrip('.!?')
RECURSIVE RStripPunct(_)
RStripPunct(t) ==
    IF t # <<>> /\ t[Len(t)] = "." THEN RStripPunct(SubSeq(t, 1, Len(t) - 1)) ELSE t

\* Lines 197-198: sentences idx and idx + 1 (counted from 0) made one.
Combined(sentences, idx) ==
    SubSeq(sentences, 1, idx)
    \o << RStripPunct(sentences[idx + 1]) \o <<".", " ">> \o sentences[idx + 2] >>
    \o SubSeq(sentences, idx + 3, Len(sentences))

\* Lines 201-212: random.random() is drawn for each sentence of more than
\* 15 words; no token reads "but", so no sentence is broken.
BreakQuiet(sentences) ==
    IF \E i \in 1..Len(sentences) : WordCount(sentences[i]) > 15
    THEN {roll >= 25 : roll \in Rolls}
    ELSE {TRUE}

\* AdvancedHumanizer._vary_sentence_structure, advanced_humanizer.py:184-214
vary_sentence_structure(t) ==
    LET sentences == JoinPairs(SplitCapture(t))
    IN IF Len(sentences) <= 1 THEN {StrOut(Join(sentences, <<" ">>), TRUE)}
       ELSE UNION {
              LET combined == IF Fires(roll, 30)
                              THEN {Combined(sentences, idx) : idx \in 0..(Len(sentences) - 2)}
                              ELSE {sentences}
              IN UNION {{StrOut(Join(s, <<" ">>), roll >= 30 /\ q) : q \in BreakQuiet(s)} :
                           s \in combined}
              : roll \in Rolls}

\* f"{starter} {text[0].lower()}{text[1:]}" (lines 229 and 234); text[0]
\* raises IndexError on the empty text.
WithStarter(starter, t, q) ==
    IF t = <<>> THEN IndexError(q)
    ELSE StrOut(starter \o <<" ">> \o <<LowerToken(t[1])>> \o Tail(t), q)

\* text.split(): the white space separated words
RECURSIVE SplitWords(_)
SplitWords(t) ==
    IF t = <<>> THEN <<>>
    ELSE IF Head(t) = " " THEN SplitWords(Tail(t))
    ELSE LET j == IndexFrom(t, <<" ">>, 1)
         IN IF j = 0 THEN <<t>> ELSE <<SubSeq(t, 1, j - 1)>> \o SplitWords(Drop(t, j))

\* Lines 222-234: the starter.
Starters(t, style) ==
    LET user_openings == style.typical_comment_openings
        natural(q) == {IF NATURAL_STARTERS[s] # <<>> THEN WithStarter(NATURAL_STARTERS[s], t, q)
                       ELSE StrOut(t, q) : s \in 1..Len(NATURAL_STARTERS)}
        users(q) == {LET starter == Capitalize(user_openings[s])
                     IN IF ~StartsWith(t, starter) THEN WithStarter(starter, t, q)
                        ELSE StrOut(t, q) : s \in 1..Len(user_openings)}
    IN UNION {IF ~Fires(roll, 30) THEN {StrOut(t, roll >= 30)}
              ELSE IF user_openings = <<>> THEN natural(roll >= 30)
              ELSE UNION {IF Fires(second, 60) THEN users(roll >= 30 /\ second >= 60)
                          ELSE natural(roll >= 30 /\ second >= 60) : second \in Rolls}
              : roll \in Rolls}

\* Lines 237-243: the filler, words.insert(insert_pos, filler) with
\* insert_pos = random.randint(3, min(5, len(words) - 1)).
Fillers(t) ==
    LET words == SplitWords(t)
        last == IF Len(words) - 1 < 5 THEN Len(words) - 1 ELSE 5
    IN UNION {IF Fires(roll, 20) /\ Len(words) > 8
              THEN {StrOut(Join(SubSeq(words, 1, insert_pos) \o <<NATURAL_FILLERS[f]>>
                               \o Drop(words, insert_pos), <<" ">>), roll >= 20) :
                       insert_pos \in 3..last, f \in 1..Len(NATURAL_FILLERS)}
              ELSE {StrOut(t, roll >= 20)}
              : roll \in Rolls}

\* AdvancedHumanizer._add_conversational_markers, advanced_humanizer.py:216-245
add_conversational_markers(t, style) ==
    UNION {IF o.kind = "str" THEN After(o, Fillers(o.text)) ELSE {o} : o \in Starters(t, style)}

\* text.split(sep)
RECURSIVE SplitOn(_, _)
SplitOn(t, sep) ==
    LET i == IndexFrom(t, sep, 1)
    IN IF i = 0 THEN <<t>>
       ELSE <<SubSeq(t, 1, i - 1)>> \o SplitOn(Drop(t, i + Len(sep) - 1), sep)

\* re.sub(r'\.  ', '. ', text)
RECURSIVE FixDoubleSpaces(_)
FixDoubleSpaces(t) ==
    IF t = <<>> THEN <<>>
    ELSE IF StartsWith(t, <<".", " ", " ">>) THEN <<".", " ">> \o FixDoubleSpaces(Drop(t, 3))
    ELSE <<Head(t)>> \o FixDoubleSpaces(Tail(t))

\* Lines 253-254: the period at the end.
DropPeriod(t) ==
    {StrOut(IF Fires(roll, 40) /\ t # <<>> /\ t[Len(t)] = "." THEN SubSeq(t, 1, Len(t) - 1) ELSE t,
            roll >= 40) : roll \in Rolls}

\* Lines 257-265: the double space after one of the sentences.
DoubleSpace(t) ==
    LET fixed == FixDoubleSpaces(t)
        sentences == SplitOn(fixed, <<".", " ">>)
    IN UNION {IF ~Fires(roll, 30) THEN {StrOut(t, roll >= 30)}
              ELSE IF Len(sentences) <= 1 THEN {StrOut(fixed, roll >= 30)}
              ELSE {StrOut(Join(SubSeq(sentences, 1, join_with_double + 1), <<".", " ">>)
                           \o <<".", " ", " ">>
                           \o Join(Drop(sentences, join_with_double + 1), <<".", " ">>),
                           roll >= 30) :
                       join_with_double \in 0..(Len(sentences) - 2)}
              : roll \in Rolls}

\* Lines 268-270: the lower case start; text[0] raises IndexError on the
\* empty text. No word of the tokens is an acronym.
LowerStart(t, style) ==
    {IF Fires(roll, 25) /\ style.tone = "casual"
     THEN IF t = <<>> THEN IndexError(roll >= 25)
          ELSE IF IsUpperToken(t[1]) THEN StrOut(<<LowerToken(t[1])>> \o Tail(t), roll >= 25)
          ELSE StrOut(t, roll >= 25)
     ELSE StrOut(t, roll >= 25) : roll \in Rolls}

\* Lines 273-277: the ellipsis; no token reads "?".
Ellipsis(t) ==
    {IF Fires(roll, 15)
     THEN IF t # <<>> /\ t[Len(t)] = "." THEN StrOut(SubSeq(t, 1, Len(t) - 1) \o <<".", ".", ".">>, roll >= 15)
          ELSE StrOut(t \o <<".", ".", ".">>, roll >= 15)
     ELSE StrOut(t, roll >= 15) : roll \in Rolls}

\* AdvancedHumanizer._add_natural_imperfections, advanced_humanizer.py:247-279
add_natural_imperfections(t, style) ==
    LET s1 == DropPeriod(t)
        s2 == UNION {After(o, DoubleSpace(o.text)) : o \in s1}
        s3 == UNION {After(o, LowerStart(o.text, style)) : o \in s2}
    IN UNION {IF o.kind = "str" THEN After(o, Ellipsis(o.text)) ELSE {o} : o \in s3}

\* AdvancedHumanizer.humanize_comment, advanced_humanizer.py:85-114: what it
\* can return or raise, over the outcomes of its random draws.
humanize_comment(comment, style) ==
    LET s1 == remove_ai_formality(comment)
        s2 == {StrOut(apply_contractions(o.text), o.quiet) : o \in s1}
        s3 == UNION {After(o, vary_sentence_structure(o.text)) : o \in s2}
        s4 == UNION {After(o, add_conversational_markers(o.text, style)) : o \in s3}
        s5 == UNION {IF o.kind = "str" THEN After(o, add_natural_imperfections(o.text, style))
                     ELSE {o} : o \in s4}
    IN {IF o.kind = "str" THEN StrOut(Strip(adjust_to_user_length(o.text, style)), o.quiet)
        ELSE o : o \in s5}

\* Any non-empty comment and any user style reach the humanizer.
InitHumanize ==
    /\ IdleApp
    /\ IdleText
    /\ IdleFetch
    /\ IdlePara
    /\ IdleJson
    /\ IdleStore
    /\ IdleProfile
    /\ hz_comment \in HzComments
    /\ hz_style \in HzStyles
    /\ hz_op = "none"
    /\ hz_calls = 0
    /\ hz_result = NoText
    /\ hz_repeats = TRUE
    /\ hz_quiet = TRUE

\* humanizer.humanize_comment(comment, user_style), applied to the same
\* comment and style again and again (advanced_humanizer.py:85-114).
HumanizeComment ==
    /\ hz_op \in {"none", "humanize_comment"}
    /\ hz_calls < MaxApplications
    /\ \E o \in humanize_comment(hz_comment, hz_style) :
        /\ hz_result' = [kind |-> o.kind, text |-> o.text]
        /\ hz_repeats' = (hz_repeats /\ (hz_calls = 0 \/ hz_result = [kind |-> o.kind, text |-> o.text]))
        /\ hz_quiet' = (hz_quiet /\ o.quiet)
    /\ hz_op' = "humanize_comment"
    /\ hz_calls' = hz_calls + 1
    /\ UNCHANGED <<hz_comment, hz_style, nonHumanizeVars>>

\* Step 1 of humanize_comment alone (advanced_humanizer.py:116-129).
RemoveAiFormality ==
    /\ hz_op = "none"
    /\ \E o \in remove_ai_formality(hz_comment) :
        /\ hz_result' = [kind |-> o.kind, text |-> o.text]
        /\ hz_quiet' = o.quiet
    /\ hz_op' = "remove_ai_formality"
    /\ UNCHANGED <<hz_comment, hz_style, hz_calls, hz_repeats, nonHumanizeVars>>

NextHumanize == HumanizeComment \/ RemoveAiFormality

SpecHumanize == InitHumanize /\ [][NextHumanize]_vars

C18_NonEmptyResult ==
    hz_op = "humanize_comment" => (hz_result.kind = "str" /\ hz_result.text # <<>>)

\* C19: the output of _remove_ai_formality does not start with any phrase
\* of FORMAL_TRANSITIONS.
C19_NoFormalTransitionLeft ==
    hz_op = "remove_ai_formality" =>
        \A k \in 1..Len(FORMAL_TRANSITIONS) : ~StartsWith(hz_result.text, FORMAL_TRANSITIONS[k])

====
